---- MODULE Spec2Model ----
(***************************************************************************)
(* Model of scripts/calculate_cluster_vectors.py: the per-cluster pipeline *)
(* build_voting_matrix -> impute_missing_values ->                         *)
(* calculate_cluster_latent_vectors -> find_representative_bills, as       *)
(* sequenced by calculate_vectors_for_cluster.                             *)
(*                                                                         *)
(* Numbers.  A Python/numpy float is modelled as an exact rational         *)
(* [n |-> numerator, d |-> denominator] in lowest terms with d > 0; the    *)
(* float NaN is [n |-> 0, d |-> 0].  Rounding is not modelled, except      *)
(* where it decides the test of line 248: a centered matrix that exact     *)
(* arithmetic makes 0 is computed in IEEE 754 doubles (see                 *)
(* centered_matrix_double).                                                *)
(*                                                                         *)
(* Containers.  A Python dict is a function whose DOMAIN is its key set; a *)
(* dict whose key order is observed (member_scores_map) also carries the   *)
(* insertion order of its keys.  A Python list is a sequence.              *)
(*                                                                         *)
(* numpy.linalg.svd.  The decomposition is an external numeric routine.    *)
(* The model gives the squares of S and the right singular vectors V in    *)
(* closed form for the centered matrices of at most two columns; numbers   *)
(* that are not rational are held as convergents of their continued        *)
(* fractions (1/sqrt(2) as 13860/19601), or cut to a multiple of 2 ^ -30   *)
(* where the matrix is what rounding left.  The sign of a singular vector  *)
(* is a choice.  The entries of U * Sigma are opaque tokens.               *)
(*                                                                         *)
(* numpy.argsort.  The default sort kind, "quicksort", is not stable, and  *)
(* numpy settles at run time which routine sorts doubles.  The model gives *)
(* the order of numpy's scalar quicksort step by step and, for the         *)
(* vectorised routines, every ascending order of the indices.              *)
(***************************************************************************)
EXTENDS Integers, Sequences, FiniteSets, TLC

VARIABLES
    legislation_scores,   \* argument: list of {billId, memberScores: [...]}
    cluster_bills,        \* argument: list of bill ids of the cluster
    bill_info,            \* argument: dict bill id -> info dict
    n_components,         \* argument: requested number of dimensions
    pc,                   \* position inside calculate_vectors_for_cluster
    voting_matrix,        \* locals of calculate_vectors_for_cluster ...
    member_ids,
    bill_ids,
    weights,
    bill_details,
    member_latent,
    bill_loadings,
    explained_variance,
    S_squared,            \* S ** 2 of the svd call inside the factorizer
    result,               \* the returned dict
    raised,               \* name of the exception that left the function, or ""
    raised_args,          \* ... and the args of that exception
    ns_args,              \* normalize_score called on its own: <<score, min, max>>
    ns_ret,               \* ... and what it returned
    call_args,            \* another function called on its own: its arguments
    call_ret              \* ... and what it returned

vars == <<legislation_scores, cluster_bills, bill_info, n_components, pc,
          voting_matrix, member_ids, bill_ids, weights, bill_details,
          member_latent, bill_loadings, explained_variance, S_squared,
          result, raised, raised_args, ns_args, ns_ret, call_args, call_ret>>

(***************************************************************************)
(* Bounds of the explored inputs.                                          *)
(***************************************************************************)
MaxLegs == 2          \* records in legislation_scores
MaxMemberScores == 2  \* memberScores entries per record
MaxClusterLen == 2    \* entries of cluster_bills
MaxK == 2             \* largest requested n_components
MaxAbsScore == 20     \* raw scores given to normalize_score on its own
MaxRows == 3          \* rows of a matrix given to a function on its own
MaxCols == 2          \* columns of such a matrix
MaxTopN == 4          \* largest top_n given to find_representative_bills
MaxSvdCols == 2       \* columns of a matrix # 0 whose singular vectors are modelled
MaxSorted == 31       \* values np.argsort is given

BillIds == {10, 20}
MemberName(m) == IF m = 1 THEN "A" ELSE "B"

(***************************************************************************)
(* Floats as exact rationals.                                              *)
(***************************************************************************)
Abs(a) == IF a < 0 THEN -a ELSE a

RECURSIVE GCD(_, _)
GCD(a, b) == IF b = 0 THEN a ELSE GCD(b, a % b)

Float(n, d) ==
    IF d = 0 THEN [n |-> 0, d |-> 0]
    ELSE LET g == GCD(Abs(n), Abs(d))
             s == IF d < 0 THEN -1 ELSE 1
         IN [n |-> (s * n) \div g, d |-> (s * d) \div g]

FInt(i) == [n |-> i, d |-> 1]
np_nan == [n |-> 0, d |-> 0]
np_isnan(x) == x.d = 0

\* common factors are taken out before the products, which keeps them
\* within TLC's integers
FAdd(x, y) == IF np_isnan(x) \/ np_isnan(y) THEN np_nan
              ELSE LET g == GCD(x.d, y.d)
                   IN Float(x.n * (y.d \div g) + y.n * (x.d \div g),
                            (x.d \div g) * y.d)
FSub(x, y) == IF np_isnan(x) \/ np_isnan(y) THEN np_nan
              ELSE LET g == GCD(x.d, y.d)
                   IN Float(x.n * (y.d \div g) - y.n * (x.d \div g),
                            (x.d \div g) * y.d)
FMul(x, y) == IF np_isnan(x) \/ np_isnan(y) THEN np_nan
              ELSE LET g == GCD(Abs(x.n), y.d)
                       g2 == GCD(Abs(y.n), x.d)
                   IN Float((x.n \div g) * (y.n \div g2),
                            (x.d \div g2) * (y.d \div g))
FDiv(x, y) == IF np_isnan(x) \/ np_isnan(y) \/ y.n = 0 THEN np_nan
              ELSE LET g == GCD(Abs(x.n), Abs(y.n))
                       g2 == GCD(x.d, y.d)
                   IN Float((x.n \div g) * (y.d \div g2),
                            (x.d \div g2) * (y.n \div g))
\* a / b < c / d for b, d > 0: the integer parts decide, or else the
\* fractional parts, compared by their inverses; this stays within TLC's
\* integers where the products a * d and c * b would not
RECURSIVE FractionLess(_, _, _, _)
FractionLess(a, b, c, d) ==
    IF a \div b # c \div d THEN a \div b < c \div d
    ELSE IF c % d = 0 THEN FALSE
    ELSE IF a % b = 0 THEN TRUE
    ELSE FractionLess(d, c % d, b, a % b)

\* x < y; False when either is nan
FLess(x, y) ==
    IF np_isnan(x) \/ np_isnan(y) THEN FALSE
    ELSE FractionLess(x.n, x.d, y.n, y.d)
FAbs(x) == [n |-> Abs(x.n), d |-> x.d]

RECURSIVE FSum(_)
FSum(s) == IF s = <<>> THEN FInt(0) ELSE FAdd(s[1], FSum(Tail(s)))

(***************************************************************************)
(* Python containers.                                                      *)
(***************************************************************************)
EmptyDict == [k \in {} |-> 0]
DictGet(d, k, default) == IF k \in DOMAIN d THEN d[k] ELSE default
DictSet(d, k, v) == [x \in (DOMAIN d) \cup {k} |-> IF x = k THEN v ELSE d[x]]
InList(x, s) == \E i \in 1..Len(s) : s[i] = x

\* sorted(): ascending, stable
RECURSIVE Insert(_, _)
Insert(x, s) ==
    IF s = <<>> THEN <<x>>
    ELSE IF x < s[1] THEN <<x>> \o s
    ELSE <<s[1]>> \o Insert(x, Tail(s))

RECURSIVE InsertionSort(_)
InsertionSort(s) ==
    IF s = <<>> THEN <<>>
    ELSE Insert(s[Len(s)], InsertionSort(SubSeq(s, 1, Len(s) - 1)))

sortedIdentity(s) == s
sorted(s) == InsertionSort(s)

(***************************************************************************)
(* normalize_score                                                         *)
(***************************************************************************)
DefaultMinScore == -10
DefaultMaxScore == 12

normalize_scoreClamped(score, min_score, max_score) ==
    LET v == FSub(FDiv(FMul(FInt(2), FInt(score - min_score)),
                       FInt(max_score - min_score)),
                  FInt(1))
    IN IF FLess(v, FInt(-1)) THEN FInt(-1)
       ELSE IF FLess(FInt(1), v) THEN FInt(1) ELSE v
normalize_scoreUnit(score, min_score, max_score) ==
    FDiv(FInt(score - min_score), FInt(max_score - min_score))

normalize_score(score, min_score, max_score) ==
    FSub(FDiv(FMul(FInt(2), FInt(score - min_score)),
              FInt(max_score - min_score)),
         FInt(1))

(***************************************************************************)
(* get_bill_weight                                                         *)
(***************************************************************************)
get_bill_weightSwapped(info, title) ==
    LET passed == DictGet(info, "passed", FALSE)
        deliberation_completed == DictGet(info, "deliberation_completed", FALSE)
    IN IF passed THEN Float(1, 1)
       ELSE IF deliberation_completed THEN Float(8, 10)
       ELSE Float(6, 10)

get_bill_weight(info, title) ==
    LET passed == DictGet(info, "passed", FALSE)
        deliberation_completed == DictGet(info, "deliberation_completed", FALSE)
    IN IF passed THEN Float(1, 1)
       ELSE IF ~deliberation_completed THEN Float(8, 10)
       ELSE Float(6, 10)

(***************************************************************************)
(* numpy arrays: a 2-D array is a sequence of rows; np.array([]) is <<>>.  *)
(***************************************************************************)
np_empty == <<>>
Shape0(m) == Len(m)
Shape1(m) == IF m = <<>> THEN 0 ELSE Len(m[1])
np_size(m) == Shape0(m) * Shape1(m)
Column(m, j) == [i \in 1..Len(m) |-> m[i][j]]
Min2(a, b) == IF a < b THEN a ELSE b
Min3(a, b, c) == Min2(a, Min2(b, c))

\* x[:stop] on a sequence of length len: how many elements it keeps
SliceStopLen(stop, len) ==
    IF stop >= 0 THEN Min2(stop, len)
    ELSE IF len + stop > 0 THEN len + stop ELSE 0

\* x[-n:] on a sequence of length len: the first index (1-based) it keeps
SliceLastStart(n, len) ==
    IF -n < 0 THEN (IF len - n > 0 THEN len - n + 1 ELSE 1)
    ELSE Min2(-n, len) + 1

(***************************************************************************)
(* build_voting_matrix                                                     *)
(***************************************************************************)
\* line 151: the value np.full puts in every cell before the votes are written
absent_markerZero == FInt(0)
absent_marker == np_nan

\* lines 159-165: one weight per entry of bill_ids
BillWeightsKnownOnly(bids, info_of) ==
    LET known == SelectSeq(bids, LAMBDA b : b \in DOMAIN info_of)
    IN [j \in 1..Len(known) |->
          get_bill_weight(info_of[known[j]], DictGet(info_of[known[j]], "title", ""))]
BillWeights(bids, info_of) ==
    [j \in 1..Len(bids) |->
       LET info == DictGet(info_of, bids[j], EmptyDict)
       IN get_bill_weight(info, DictGet(info, "title", ""))]

\* line 131: the test that keeps a record of legislation_scores
bill_in_clusterAlways(bill_id, cluster) == TRUE
bill_in_cluster(bill_id, cluster) == InList(bill_id, cluster)

\* the exception a subscript or normalize_score raises on one memberScores
\* entry, in the order lines 135-141 evaluate them; "" when none does.  The
\* score is subtracted from at line 109 before memberName is read.
VoteException(member_score) ==
    IF "memberId" \notin DOMAIN member_score
    THEN [exc |-> "KeyError", exc_args |-> <<"memberId">>]
    ELSE IF "score" \notin DOMAIN member_score
            /\ "scoreText" \notin DOMAIN member_score
    THEN [exc |-> "KeyError", exc_args |-> <<"score">>]
    ELSE IF "scoreText" \in DOMAIN member_score
    THEN [exc |-> "TypeError",
          exc_args |-> <<"unsupported operand type(s) for -: 'str' and 'int'">>]
    ELSE IF "memberName" \notin DOMAIN member_score
    THEN [exc |-> "KeyError", exc_args |-> <<"memberName">>]
    ELSE [exc |-> "", exc_args |-> <<>>]

\* the inner loop with a vote kept only when the member has none on the bill
RECURSIVE ScanMemberScoresFirstWins(_, _, _)
ScanMemberScoresFirstWins(member_scores, bill_id, acc) ==
    IF member_scores = <<>> \/ acc.exc # "" THEN acc
    ELSE IF VoteException(Head(member_scores)).exc # ""
    THEN [acc EXCEPT !.exc = VoteException(Head(member_scores)).exc,
                     !.exc_args = VoteException(Head(member_scores)).exc_args]
    ELSE
      LET member_score == Head(member_scores)
          member_id == member_score["memberId"]
          old == DictGet(acc.member_scores_map, member_id, EmptyDict)
          new == IF bill_id \in DOMAIN old THEN old
                 ELSE DictSet(old, bill_id,
                              normalize_score(member_score["score"],
                                              DefaultMinScore, DefaultMaxScore))
      IN ScanMemberScoresFirstWins(Tail(member_scores), bill_id,
            [keys |-> IF member_id \in DOMAIN acc.member_scores_map
                      THEN acc.keys ELSE Append(acc.keys, member_id),
             member_scores_map |-> DictSet(acc.member_scores_map, member_id, new),
             member_names |-> DictSet(acc.member_names, member_id,
                                      member_score["memberName"]),
             exc |-> "", exc_args |-> <<>>])

\* lines 134-141: the inner loop over one record's memberScores
RECURSIVE ScanMemberScores(_, _, _)
ScanMemberScores(member_scores, bill_id, acc) ==
    IF member_scores = <<>> \/ acc.exc # "" THEN acc
    ELSE IF VoteException(Head(member_scores)).exc # ""
    THEN [acc EXCEPT !.exc = VoteException(Head(member_scores)).exc,
                     !.exc_args = VoteException(Head(member_scores)).exc_args]
    ELSE
      LET member_score == Head(member_scores)
          member_id == member_score["memberId"]
          score == member_score["score"]
          isNew == member_id \notin DOMAIN acc.member_scores_map
          map1 == IF isNew
                  THEN DictSet(acc.member_scores_map, member_id, EmptyDict)
                  ELSE acc.member_scores_map
          keys1 == IF isNew THEN Append(acc.keys, member_id) ELSE acc.keys
          map2 == DictSet(map1, member_id,
                          DictSet(map1[member_id], bill_id,
                                  normalize_score(score, DefaultMinScore,
                                                  DefaultMaxScore)))
          names2 == DictSet(acc.member_names, member_id,
                            member_score["memberName"])
      IN ScanMemberScores(Tail(member_scores), bill_id,
                          [keys |-> keys1, member_scores_map |-> map2,
                           member_names |-> names2,
                           exc |-> "", exc_args |-> <<>>])

\* lines 129-141: the outer loop over legislation_scores
RECURSIVE ScanLegislation(_, _, _)
ScanLegislation(scores, cluster, acc) ==
    IF scores = <<>> \/ acc.exc # "" THEN acc
    ELSE
      LET leg_score == Head(scores)
          bill_id == leg_score["billId"]
      IN IF ~bill_in_cluster(bill_id, cluster)
         THEN ScanLegislation(Tail(scores), cluster, acc)
         ELSE ScanLegislation(Tail(scores), cluster,
                  ScanMemberScores(leg_score["memberScores"], bill_id, acc))

\* lines 161-173: the detail record of one bill
\* the detail record with a missing "passed" read as passed
BillDetailPassedByDefault(bill_id, info) ==
    [billId |-> bill_id,
     title |-> DictGet(info, "title", ""),
     passed |-> DictGet(info, "passed", TRUE),
     deliberationCompleted |-> DictGet(info, "deliberation_completed", FALSE)]

BillDetail(bill_id, info) ==
    [billId |-> bill_id,
     title |-> DictGet(info, "title", ""),
     passed |-> DictGet(info, "passed", FALSE),
     deliberationCompleted |-> DictGet(info, "deliberation_completed", FALSE)]

BuildEmpty ==
    [exc |-> "", exc_args |-> <<>>,
     matrix |-> np_empty, member_ids |-> <<>>, bill_ids |-> <<>>,
     weights |-> <<>>, bill_details |-> <<>>]

build_voting_matrix(scores, cluster, info_of) ==
    LET acc == ScanLegislation(scores, cluster,
                   [keys |-> <<>>, member_scores_map |-> EmptyDict,
                    member_names |-> EmptyDict,
                    exc |-> "", exc_args |-> <<>>])
        mids == sorted(acc.keys)
        bids == sorted(cluster)
    IN IF acc.exc # ""
       THEN [BuildEmpty EXCEPT !.exc = acc.exc, !.exc_args = acc.exc_args]
       ELSE IF Len(mids) = 0 \/ Len(bids) = 0 THEN BuildEmpty
       ELSE
         [exc |-> "", exc_args |-> <<>>,
          matrix |->
            [i \in 1..Len(mids) |->
               [j \in 1..Len(bids) |->
                  IF bids[j] \in DOMAIN DictGet(acc.member_scores_map,
                                                mids[i], EmptyDict)
                  THEN acc.member_scores_map[mids[i]][bids[j]]
                  ELSE absent_marker]],
          member_ids |-> mids,
          bill_ids |-> bids,
          weights |-> BillWeights(bids, info_of),
          bill_details |->
            [j \in 1..Len(bids) |->
               BillDetail(bids[j], DictGet(info_of, bids[j], EmptyDict))]]

(***************************************************************************)
(* impute_missing_values                                                   *)
(***************************************************************************)
RECURSIVE PresentValues(_)
PresentValues(col) ==
    IF col = <<>> THEN <<>>
    ELSE IF np_isnan(col[1]) THEN PresentValues(Tail(col))
    ELSE <<col[1]>> \o PresentValues(Tail(col))

\* np.nanmean of one column: NaN when every value is NaN
np_nanmean(col) ==
    LET present == PresentValues(col)
    IN IF present = <<>> THEN np_nan
       ELSE FDiv(FSum(present), FInt(Len(present)))

impute_missing_valuesNoFallback(matrix) ==
    [i \in 1..Shape0(matrix) |->
       [j \in 1..Shape1(matrix) |->
          LET col_mean == np_nanmean(Column(matrix, j))
          IN IF np_isnan(matrix[i][j]) THEN col_mean ELSE matrix[i][j]]]

impute_missing_values(matrix) ==
    [i \in 1..Shape0(matrix) |->
       [j \in 1..Shape1(matrix) |->
          LET col_mean == np_nanmean(Column(matrix, j))
          IN IF np_isnan(matrix[i][j])
             THEN (IF ~np_isnan(col_mean) THEN col_mean ELSE FInt(0))
             ELSE matrix[i][j]]]

(***************************************************************************)
(* calculate_cluster_latent_vectors                                        *)
(***************************************************************************)
\* lines 219-220: matrix @ np.diag(weights)
weighted_matrix(matrix, w) ==
    [i \in 1..Shape0(matrix) |->
       [j \in 1..Shape1(matrix) |-> FMul(matrix[i][j], w[j])]]

\* centering along the other axis: subtract from each column its mean
centered_matrixColumns(wm) ==
    [i \in 1..Shape0(wm) |->
       [j \in 1..Shape1(wm) |->
          FSub(wm[i][j], FDiv(FSum(Column(wm, j)), FInt(Shape0(wm))))]]

\* lines 223-224: subtract from each row the mean of the row
centered_matrix(wm) ==
    [i \in 1..Shape0(wm) |->
       LET row_mean == FDiv(FSum(wm[i]), FInt(Len(wm[i])))
       IN [j \in 1..Shape1(wm) |-> FSub(wm[i][j], row_mean)]]

\* lines 227-229
max_componentsShapeOnly(n, cm) == Min2(Shape0(cm), Shape1(cm))
max_components(n, cm) == Min3(n, Shape0(cm), Shape1(cm))

\* line 246: sum(S**2) is the sum of the squares of the entries of the
\* decomposed matrix
RECURSIVE SumSquares(_)
SumSquares(m) ==
    IF m = <<>> THEN FInt(0)
    ELSE LET sq == [j \in 1..Len(m[1]) |-> FMul(m[1][j], m[1][j])]
         IN FAdd(FSum(sq), SumSquares(Tail(m)))

(***************************************************************************)
(* np.linalg.svd, line 235.  The squares of the singular values are the    *)
(* eigenvalues of the Gram matrix of cm; they are given where they are     *)
(* rational numbers: for a matrix of rank <= 1, and for one of rank 2      *)
(* whose characteristic polynomial has rational roots.  The right singular *)
(* vectors are given for matrices of zeros and for matrices of at most     *)
(* MaxSvdCols columns, their irrational entries as convergents of          *)
(* continued fractions.  Where the model has no such number the operators  *)
(* give no outcome.                                                        *)
(***************************************************************************)
FZero(x) == x = FInt(0)

IsZeroMatrix(cm) ==
    \A i \in 1..Shape0(cm), j \in 1..Shape1(cm) : FZero(cm[i][j])

\* the 2 x 2 minor of rows i, i2 and columns j, j2
Minor2(cm, i, i2, j, j2) ==
    FSub(FMul(cm[i][j], cm[i2][j2]), FMul(cm[i][j2], cm[i2][j]))

\* the 3 x 3 minor of rows i and columns j (triples)
Minor3(cm, i, j) ==
    FAdd(FSub(FMul(cm[i[1]][j[1]], Minor2(cm, i[2], i[3], j[2], j[3])),
              FMul(cm[i[1]][j[2]], Minor2(cm, i[2], i[3], j[1], j[3]))),
         FMul(cm[i[1]][j[3]], Minor2(cm, i[2], i[3], j[1], j[2])))

\* the sum of the squares of the 2 x 2 minors: the second coefficient of the
\* characteristic polynomial of the Gram matrix
SumSquaredMinors(cm) ==
    LET M == Shape0(cm)
        N == Shape1(cm)
        term(k) ==
            LET i == ((k - 1) \div (M * N * N)) + 1
                i2 == (((k - 1) \div (N * N)) % M) + 1
                j == (((k - 1) \div N) % N) + 1
                j2 == ((k - 1) % N) + 1
                minor == Minor2(cm, i, i2, j, j2)
            IN IF i < i2 /\ j < j2 THEN FMul(minor, minor) ELSE FInt(0)
    IN FSum([k \in 1..(M * M * N * N) |-> term(k)])

\* the integer square root, by bisection between lo and hi
RECURSIVE IntSqrtIn(_, _, _)
IntSqrtIn(x, lo, hi) ==
    IF lo >= hi THEN lo
    ELSE LET mid == (lo + hi + 1) \div 2
         IN IF mid * mid <= x THEN IntSqrtIn(x, mid, hi)
            ELSE IntSqrtIn(x, lo, mid - 1)

IntSqrt(x) == IntSqrtIn(x, 0, Min2(x, 46340))

\* the square roots of x that are rational numbers: one or none
RationalSqrt(x) ==
    IF np_isnan(x) \/ x.n < 0 THEN {}
    ELSE IF IntSqrt(x.n) * IntSqrt(x.n) = x.n /\ IntSqrt(x.d) * IntSqrt(x.d) = x.d
    THEN {Float(IntSqrt(x.n), IntSqrt(x.d))}
    ELSE {}

\* S ** 2 of the svd of cm, in descending order
SquaredSingularValues(cm) ==
    LET r == Min2(Shape0(cm), Shape1(cm))
        F == SumSquares(cm)
    IN IF \A i, i2 \in 1..Shape0(cm), j, j2 \in 1..Shape1(cm) :
             FZero(Minor2(cm, i, i2, j, j2))
       THEN {[d \in 1..r |-> IF d = 1 THEN F ELSE FInt(0)]}
       ELSE IF \A i \in [1..3 -> 1..Shape0(cm)], j \in [1..3 -> 1..Shape1(cm)] :
                  FZero(Minor3(cm, i, j))
       THEN LET E2 == SumSquaredMinors(cm)
                disc == FSub(FMul(F, F), FMul(FInt(4), E2))
            IN {[d \in 1..r |->
                   IF d = 1 THEN FDiv(FAdd(F, root), FInt(2))
                   ELSE IF d = 2 THEN FDiv(FSub(F, root), FInt(2))
                   ELSE FInt(0)] : root \in RationalSqrt(disc)}
       ELSE {}

\* the sign of a singular vector is whatever the LAPACK routine leaves
SignChoices(r) == [1..r -> {1, -1}]

\* svd of a matrix of zeros: the leading columns of the identity
IdentityLoadings(n, r) ==
    {[j \in 1..n |-> [d \in 1..r |-> IF j = d THEN FInt(s[d]) ELSE FInt(0)]] :
        s \in SignChoices(r)}

\* the largest number whose square TLC's integers hold
MaxRoot == 46340

\* the continued fraction of sqrt(D) / d0 for d0 a divisor of D, r the
\* integer part of sqrt(D): the last convergent h / q with h <= limits[1]
\* and q <= limits[2] (the first, the integer part, whatever the limits),
\* or the number itself when the fraction ends there
RECURSIVE ConvergentFrom(_, _, _, _, _, _, _, _, _, _)
ConvergentFrom(D, r, m, d, a, h1, h0, q1, q0, limits) ==
    IF D = (d * a - m) * (d * a - m) THEN [h |-> h1, q |-> q1]
    ELSE LET m2 == d * a - m
             d2 == (D - m2 * m2) \div d
             a2 == (r + m2) \div d2
             h2 == a2 * h1 + h0
             q2 == a2 * q1 + q0
         IN IF h2 > limits[1] \/ q2 > limits[2] THEN [h |-> h1, q |-> q1]
            ELSE ConvergentFrom(D, r, m2, d2, a2, h2, h1, q2, q1, limits)

RootConvergent(D, d0, hmax, qmax) ==
    ConvergentFrom(D, IntSqrt(D), 0, d0, IntSqrt(D) \div d0,
                   IntSqrt(D) \div d0, 1, 1, 0, <<hmax, qmax>>)

\* sqrt(p / q) for 0 <= p <= q
UnitRoot(p, q) ==
    IF p <= 0 THEN FInt(0)
    ELSE IF p >= q THEN FInt(1)
    ELSE LET g == GCD(p, q)
             c == RootConvergent((p \div g) * (q \div g), q \div g,
                                 MaxRoot, MaxRoot)
         IN Float(c.h, c.q)

\* the sum over the rows of cm of the products of columns j and j2
ColumnProduct(cm, j, j2) ==
    FSum([i \in 1..Shape0(cm) |-> FMul(cm[i][j], cm[i][j2])])

\* V of two columns whose first right singular vector is (cs, sn) and whose
\* second is (-sn, cs), each with either sign
RotationLoadings(cs, sn, r) ==
    LET v == <<<<cs, FMul(FInt(-1), sn)>>, <<sn, cs>>>>
    IN {[j \in 1..2 |-> [d \in 1..r |-> FMul(FInt(s[d]), v[j][d])]] :
           s \in SignChoices(r)}

\* equal singular values leave svd the choice of the basis, of which the
\* model gives the columns of the identity in both orders
EitherOrderLoadings(r) ==
    IdentityLoadings(2, r)
    \cup {[j \in 1..2 |-> [d \in 1..r |-> V[3 - j][d]]] :
             V \in IdentityLoadings(2, r)}

\* svd of a two-column matrix that is not 0, of Gram matrix [[A, B], [B, C]]
\* with root = sqrt((C - A) ^ 2 + 4 B ^ 2): the first right singular vector
\* is (c, s) with s ^ 2 = (root + C - A) / (2 root), c ^ 2 = 1 - s ^ 2 and c
\* of the sign of B.  Rows t * (1, -1) give A = C = -B, s ^ 2 = 1 / 2 and
\* the vector (-1, 1) / sqrt(2).
PlaneLoadings(cm, r) ==
    LET A == ColumnProduct(cm, 1, 1)
        B == ColumnProduct(cm, 1, 2)
        C == ColumnProduct(cm, 2, 2)
        t == FSub(C, A)
        disc == FAdd(FMul(t, t), FMul(FInt(4), FMul(B, B)))
    IN IF FZero(disc) THEN EitherOrderLoadings(r)
       ELSE UNION {LET s2 == FDiv(FAdd(root, t), FMul(FInt(2), root))
                       c2 == FDiv(FSub(root, t), FMul(FInt(2), root))
                       sn == UnitRoot(s2.n, s2.d)
                       cs == UnitRoot(c2.n, c2.d)
                   IN IF s2.d > MaxRoot THEN {}
                      ELSE RotationLoadings(
                             IF B.n < 0 THEN FMul(FInt(-1), cs) ELSE cs,
                             sn, r) : root \in RationalSqrt(disc)}

\* V = Vt.T, line 240 before its rows are cut: the N x min(M, N) matrices of
\* right singular vectors svd can return for cm
LoadingMatrices(cm) ==
    LET r == Min2(Shape0(cm), Shape1(cm))
    IN IF r = 0 THEN {}
       ELSE IF IsZeroMatrix(cm) THEN IdentityLoadings(Shape1(cm), r)
       ELSE IF Shape1(cm) > MaxSvdCols THEN {}
       ELSE IF Shape1(cm) = 1 THEN IdentityLoadings(1, 1)
       ELSE IF Shape1(cm) = 2 THEN PlaneLoadings(cm, r)
       ELSE {}

(***************************************************************************)
(* Floating point.  The model computes in exact arithmetic; the code       *)
(* computes in IEEE 754 doubles, and line 248 compares the sum of S ** 2   *)
(* with 0.  A centered matrix that is 0 in exact arithmetic is 0 in        *)
(* doubles only if rounding left the same double in every column of a row  *)
(* at line 220.  That is certain for one column, and for two columns whose *)
(* cells are the same double (or 0.0) and whose weights are equal.  For    *)
(* the other matrices of two columns the doubles of lines 109, 184, 220,   *)
(* 223 and 224 are computed bit by bit, and svd decomposes what rounding   *)
(* left.                                                                   *)
(***************************************************************************)
\* the cell of the imputed matrix is a vote, 0.0, or a column mean that
\* np.nanmean computes without rounding (one value, or two equal values)
ExactCell(matrix0, i, j) ==
    \/ ~np_isnan(matrix0[i][j])
    \/ LET present == PresentValues(Column(matrix0, j))
       IN \/ Len(present) <= 1
          \/ Len(present) = 2 /\ present[1] = present[2]

CertainlyZero(matrix0, w) ==
    LET matrix == impute_missing_values(matrix0)
    IN \/ Shape1(matrix0) = 1
       \/ \A i \in 1..Shape0(matrix0), j \in 1..Shape1(matrix0) :
             ExactCell(matrix0, i, j) /\ FZero(matrix[i][j])
       \/ /\ Shape1(matrix0) = 2
          /\ \A i \in 1..Shape0(matrix0) :
               /\ ExactCell(matrix0, i, 1) /\ ExactCell(matrix0, i, 2)
               /\ \/ FZero(matrix[i][1]) /\ FZero(matrix[i][2])
                  \/ matrix[i][1] = matrix[i][2] /\ w[1] = w[2]

(***************************************************************************)
(* Natural numbers of any length: the sequence of their digits in base     *)
(* 2 ^ DigitBits, the lowest first, the highest not 0; <<>> is 0.          *)
(***************************************************************************)
DigitBits == 15
Base == 2 ^ DigitBits

RECURSIVE BTrim(_)
BTrim(b) ==
    IF b = <<>> THEN <<>>
    ELSE IF b[Len(b)] = 0 THEN BTrim(SubSeq(b, 1, Len(b) - 1))
    ELSE b

RECURSIVE BOfNat(_)
BOfNat(n) == IF n = 0 THEN <<>> ELSE <<n % Base>> \o BOfNat(n \div Base)

BRest(b) == IF b = <<>> THEN <<>> ELSE Tail(b)
BLow(b) == IF b = <<>> THEN 0 ELSE b[1]

RECURSIVE BAddC(_, _, _)
BAddC(a, b, carry) ==
    IF a = <<>> /\ b = <<>> THEN (IF carry = 0 THEN <<>> ELSE <<carry>>)
    ELSE <<(BLow(a) + BLow(b) + carry) % Base>>
            \o BAddC(BRest(a), BRest(b), (BLow(a) + BLow(b) + carry) \div Base)

\* a - b - borrow for a >= b + borrow, before the high zeros are cut
RECURSIVE BSubB(_, _, _)
BSubB(a, b, borrow) ==
    IF a = <<>> THEN <<>>
    ELSE <<(BLow(a) - BLow(b) - borrow) % Base>>
            \o BSubB(BRest(a), BRest(b),
                     IF BLow(a) - BLow(b) - borrow < 0 THEN 1 ELSE 0)

RECURSIVE BLessSameLen(_, _)
BLessSameLen(a, b) ==
    IF a = <<>> THEN FALSE
    ELSE IF a[Len(a)] # b[Len(b)] THEN a[Len(a)] < b[Len(b)]
    ELSE BLessSameLen(SubSeq(a, 1, Len(a) - 1), SubSeq(b, 1, Len(b) - 1))

BLess(a, b) ==
    IF Len(a) # Len(b) THEN Len(a) < Len(b) ELSE BLessSameLen(a, b)

\* a * k for a digit k
RECURSIVE BMulDigitC(_, _, _)
BMulDigitC(a, k, carry) ==
    IF a = <<>> THEN (IF carry = 0 THEN <<>> ELSE <<carry>>)
    ELSE <<(a[1] * k + carry) % Base>>
            \o BMulDigitC(Tail(a), k, (a[1] * k + carry) \div Base)

BMulDigit(a, k) == IF k = 0 THEN <<>> ELSE BMulDigitC(a, k, 0)

\* a * Base ^ k
BShlDigits(a, k) == IF a = <<>> THEN <<>> ELSE [i \in 1..k |-> 0] \o a

RECURSIVE BMul(_, _)
BMul(a, b) ==
    IF a = <<>> \/ b = <<>> THEN <<>>
    ELSE BAddC(BMulDigit(a, b[1]), BShlDigits(BMul(a, Tail(b)), 1), 0)

\* quotient and remainder of a by the positive digit q, digit by digit from
\* the highest, i, down; the quotient keeps its high zeros
RECURSIVE BDivFrom(_, _, _, _, _)
BDivFrom(a, i, q, rem, quot) ==
    IF i = 0 THEN [quot |-> quot, rem |-> rem]
    ELSE BDivFrom(a, i - 1, q, (Base * rem + a[i]) % q,
                  <<(Base * rem + a[i]) \div q>> \o quot)

BDivDigit(a, q) ==
    LET d == BDivFrom(a, Len(a), q, 0, <<>>)
    IN [quot |-> BTrim(d.quot), rem |-> d.rem]

\* a * 2 ^ k
BShl(a, k) == BShlDigits(BMulDigit(a, 2 ^ (k % DigitBits)), k \div DigitBits)

\* a \div 2 ^ k, and whether the division left a remainder
BShr(a, k) ==
    LET digits == Min2(k \div DigitBits, Len(a))
        d == BDivDigit(SubSeq(a, digits + 1, Len(a)), 2 ^ (k % DigitBits))
    IN [quot |-> d.quot,
        inexact |-> d.rem # 0 \/ \E i \in 1..digits : a[i] # 0]

\* the number of binary digits of a digit, and of a number
RECURSIVE DigitLength(_)
DigitLength(n) == IF n = 0 THEN 0 ELSE 1 + DigitLength(n \div 2)

BitLength(a) ==
    IF a = <<>> THEN 0
    ELSE DigitBits * (Len(a) - 1) + DigitLength(a[Len(a)])

\* the number of binary zeros a number # 0 ends with
RECURSIVE DigitZeros(_)
DigitZeros(n) == IF n % 2 = 1 THEN 0 ELSE 1 + DigitZeros(n \div 2)

RECURSIVE EndingZeros(_)
EndingZeros(a) ==
    IF a[1] # 0 THEN DigitZeros(a[1]) ELSE DigitBits + EndingZeros(Tail(a))

(***************************************************************************)
(* Doubles: sign * m * 2 ^ e with m odd and of at most MantissaBits        *)
(* binary digits, or m = 0.  The votes and weights of the program are far  *)
(* from the largest and the smallest double, so the range of the exponent  *)
(* is not modelled; -0.0 is 0.0.                                           *)
(***************************************************************************)
MantissaBits == 53

DZero == [s |-> 1, m |-> <<>>, e |-> 0]

DNorm(s, m, e) ==
    IF m = <<>> THEN DZero
    ELSE [s |-> s, m |-> BShr(m, EndingZeros(m)).quot, e |-> e + EndingZeros(m)]

\* the double nearest to s * (p + rest) * 2 ^ e, ties to the even mantissa;
\* sticky tells that 0 < rest < 1, and is FALSE unless p is longer than
\* MantissaBits
DRound(s, p, e, sticky) ==
    LET k == BitLength(p) - MantissaBits
        \* cut is p without its last k - 1 binary digits, high without k
        nearest(cut, high) ==
            IF /\ cut.quot[1] % 2 = 1
               /\ (sticky \/ cut.inexact \/ high[1] % 2 = 1)
            THEN BAddC(high, <<1>>, 0)
            ELSE high
        halved(cut) == nearest(cut, BShr(cut.quot, 1).quot)
    IN DNorm(s, IF k <= 0 THEN p ELSE halved(BShr(p, k - 1)),
             IF k <= 0 THEN e ELSE e + k)

DOfInt(i) == DNorm(IF i < 0 THEN -1 ELSE 1, BOfNat(Abs(i)), 0)

DAdd(x, y) ==
    LET \* x is x.s * xm * 2 ^ e and y is y.s * ym * 2 ^ e
        sum(xm, ym, e) ==
            DRound(IF x.s = y.s \/ BLess(ym, xm) THEN x.s ELSE y.s,
                   IF x.s = y.s THEN BAddC(xm, ym, 0)
                   ELSE IF BLess(xm, ym) THEN BTrim(BSubB(ym, xm, 0))
                   ELSE BTrim(BSubB(xm, ym, 0)),
                   e, FALSE)
    IN IF x.m = <<>> THEN y
       ELSE IF y.m = <<>> THEN x
       ELSE sum(BShl(x.m, x.e - Min2(x.e, y.e)),
                BShl(y.m, y.e - Min2(x.e, y.e)), Min2(x.e, y.e))

DSub(x, y) == DAdd(x, IF y.m = <<>> THEN y ELSE [y EXCEPT !.s = -y.s])

DMul(x, y) == DRound(x.s * y.s, BMul(x.m, y.m), x.e + y.e, FALSE)

\* x / q for an integer q # 0 that is a digit: the quotient is taken to
\* DivisionBits binary digits more than x has, which leaves it longer than
\* a mantissa
DivisionBits == 75

DDivInt(x, q) ==
    LET rounded(d) == DRound(IF q < 0 THEN -x.s ELSE x.s, d.quot,
                             x.e - DivisionBits, d.rem # 0)
    IN rounded(BDivDigit(BShl(x.m, DivisionBits), Abs(q)))

\* the double Python reads from a literal such as 0.6
DOfRational(x) == DDivInt(DOfInt(x.n), x.d)

\* np.add.reduce of a short sequence: from the first to the last, which
\* DSumFrom(DZero, s) is since 0.0 + x is x
RECURSIVE DSumFrom(_, _)
DSumFrom(acc, s) == IF s = <<>> THEN acc ELSE DSumFrom(DAdd(acc, s[1]), Tail(s))

\* line 109 in doubles, for a = score - min_score and b = max_score -
\* min_score
normalize_score_double(a, b) ==
    DSub(DDivInt(DMul(DOfInt(2), DOfInt(a)), b), DOfInt(1))

\* the double in a cell of the voting matrix whose exact value is x: line
\* 140 left there what line 109 made of the score, and x is that score's
\* exact image; a value that is no integer score's image is read as a
\* literal
double_of_cell(x) ==
    LET b == DefaultMaxScore - DefaultMinScore
        a2 == (x.n + x.d) * b
    IN IF a2 % (2 * x.d) = 0 THEN normalize_score_double(a2 \div (2 * x.d), b)
       ELSE DOfRational(x)

\* lines 184-190 in doubles: np.nanmean adds the present values of a column
\* from the first row down and divides by their number
impute_missing_values_double(matrix0) ==
    [i \in 1..Shape0(matrix0) |->
       [j \in 1..Shape1(matrix0) |->
          LET nanmean(doubles) ==
                  IF doubles = <<>> THEN DZero
                  ELSE DDivInt(DSumFrom(DZero, doubles), Len(doubles))
              cells(present) ==
                  [k \in 1..Len(present) |-> double_of_cell(present[k])]
          IN IF ~np_isnan(matrix0[i][j]) THEN double_of_cell(matrix0[i][j])
             ELSE nanmean(cells(PresentValues(Column(matrix0, j))))]]

\* lines 219-224 in doubles: the product with the diagonal matrix leaves in
\* a cell the rounded product of the cell and its weight
centered_matrix_double(matrix0, w) ==
    LET weighted_matrix_of(matrix) ==
            [i \in 1..Len(matrix) |->
               [j \in 1..Len(matrix[i]) |->
                  DMul(matrix[i][j], DOfRational(w[j]))]]
        centered(row, row_mean) ==
            [j \in 1..Len(row) |-> DSub(row[j], row_mean)]
        centered_matrix_of(wm) ==
            [i \in 1..Len(wm) |->
               centered(wm[i], DDivInt(DSumFrom(DZero, wm[i]), Len(wm[i])))]
    IN centered_matrix_of(
           weighted_matrix_of(impute_missing_values_double(matrix0)))

(***************************************************************************)
(* svd of what rounding left of a matrix of zeros.  Its cells are a few    *)
(* units in the last place of the products of line 220: the matrix is K    *)
(* times a power of two, K a matrix of integers.  The right singular       *)
(* vectors are those of K.  The squares of the singular values are those   *)
(* of K times the square of the power of two, numbers of the order of      *)
(* 1e-33 that the rationals of the model do not reach: the model gives     *)
(* them as shares of ResidueUnit, which stands in the place of their sum.  *)
(* The code reads of S ** 2 its sign and its ratios (lines 246-248), which *)
(* do not depend on the unit.                                              *)
(***************************************************************************)
ResidueUnit == [n |-> 1, d |-> 32]

\* the denominators of the loadings and of the shares of the variance
LoadingScale == 2 ^ 30
VarianceScale == 2 ^ 24

DoubleCells(dm) ==
    {dm[i][j] : i \in 1..Shape0(dm), j \in 1..Shape1(dm)}

\* the lowest exponent among the cells that are not 0
LowestExponent(dm) ==
    LET es == {c.e : c \in {c \in DoubleCells(dm) : c.m # <<>>}}
    IN CHOOSE e \in es : \A e2 \in es : e <= e2

\* K: the sign and the magnitude of every cell in units of 2 ^ e, e the
\* lowest exponent
ResidueMatrix(dm) ==
    LET e == LowestExponent(dm)
    IN [i \in 1..Shape0(dm) |->
          [j \in 1..Shape1(dm) |->
             [s |-> dm[i][j].s,
              m |-> IF dm[i][j].m = <<>> THEN <<>>
                    ELSE BShl(dm[i][j].m, dm[i][j].e - e)]]]

\* the sum over the rows of K of the products of columns j and j2 that
\* have the sign given
RECURSIVE GramPart(_, _, _, _)
GramPart(K, j, j2, sign) ==
    IF K = <<>> THEN <<>>
    ELSE BAddC(IF K[1][j].s * K[1][j2].s = sign
               THEN BMul(K[1][j].m, K[1][j2].m) ELSE <<>>,
               GramPart(Tail(K), j, j2, sign), 0)

\* |a - b|
BDistance(a, b) ==
    IF BLess(a, b) THEN BTrim(BSubB(b, a, 0)) ELSE BTrim(BSubB(a, b, 0))

\* the Gram matrix [[A, B], [B, C]] of K: A + C, |C - A|, |B|, whether
\* C > A, whether B < 0, and the discriminant (C - A) ^ 2 + 4 B ^ 2
Gram(K) ==
    LET of(A, C, plus, minus) ==
            [F |-> BAddC(A, C, 0),
             t |-> BDistance(C, A),
             B |-> BDistance(plus, minus),
             second |-> BLess(A, C),
             negative |-> BLess(plus, minus),
             disc |-> BAddC(BMul(BDistance(C, A), BDistance(C, A)),
                            BMulDigit(BMul(BDistance(plus, minus),
                                           BDistance(plus, minus)), 4), 0)]
    IN of(GramPart(K, 1, 1, 1), GramPart(K, 2, 2, 1),
          GramPart(K, 1, 2, 1), GramPart(K, 1, 2, -1))

\* the largest p = lo + d * step, step a power of Radix and d in
\* 0 .. Radix, with p * p * den <= num, lo being one such p: a digit in
\* base Radix at a time, the highest first
Radix == 8

RECURSIVE RootFloor(_, _, _, _)
RootFloor(num, den, lo, step) ==
    LET fits(p) == ~BLess(num, BMul(den, BMul(BOfNat(p), BOfNat(p))))
        digit == Cardinality({d \in 1..Radix : fits(lo + d * step)})
    IN IF step = 0 THEN lo
       ELSE RootFloor(num, den, lo + digit * step, step \div Radix)

\* S ** 2 of the svd of K * 2 ^ e, K # 0 of two columns: the eigenvalues
\* (A + C +- root) / 2 of the Gram matrix g of K, root the square root of
\* its discriminant, as the shares (1 +- root / (A + C)) / 2 of ResidueUnit,
\* with root / (A + C) cut to a multiple of 1 / VarianceScale
ResidueSquaredSingularValues(g, r) ==
    LET q == BOfNat(VarianceScale)
        share == RootFloor(BMul(g.disc, BMul(q, q)), BMul(g.F, g.F),
                           0, VarianceScale \div Radix)
    IN [d \in 1..r |->
          Float(IF d = 1 THEN VarianceScale + share
                ELSE VarianceScale - share,
                2 * VarianceScale * ResidueUnit.d)]

\* V of the svd of K, of Gram matrix g = [[A, B], [B, C]] with root =
\* sqrt((C - A) ^ 2 + 4 B ^ 2).  The first right singular vector lies at
\* the angle theta <= pi / 4 from the column of the larger sum of squares,
\* where cos(2 theta) = |C - A| / root: its larger entry is cos(theta) =
\* sqrt((1 + cos(2 theta)) / 2), its smaller is sin(theta) = |B| / (root *
\* cos(theta)), and the first entry has the sign of B.  The entries are cut
\* to multiples of 1 / LoadingScale.
ResidueLoadings(g, r) ==
    LET q == BOfNat(LoadingScale)
        step == LoadingScale \div Radix
        cos2 == RootFloor(BMul(BMul(g.t, g.t), BMul(q, q)), g.disc, 0, step)
        entries(twice) ==
            [major |-> Float(RootFloor(BMul(twice, q), <<2>>, 0, step),
                             LoadingScale),
             minor |-> Float(RootFloor(
                                 BMul(BMulDigit(BMul(g.B, g.B), 2),
                                      BMul(q, BMul(q, q))),
                                 BMul(g.disc, twice), 0, step),
                             LoadingScale)]
        rotation(e) ==
            LET cs == IF g.second THEN e.minor ELSE e.major
                sn == IF g.second THEN e.major ELSE e.minor
            IN RotationLoadings(
                   IF g.negative THEN FMul(FInt(-1), cs) ELSE cs, sn, r)
    IN IF g.disc = <<>> THEN EitherOrderLoadings(r)
       ELSE rotation(entries(BAddC(q, BOfNat(cos2), 0)))

\* what svd can return for the matrix lines 216-224 make of matrix0: S ** 2
\* and V.  svd is not reached when the matrix has no cells (lines 212-213),
\* when the product at line 220 raises, and when max_components is 0 (lines
\* 231-232).  A matrix that is 0 in exact arithmetic but not certainly 0 in
\* doubles is decomposed as rounding left it when it has two columns; the
\* model has no outcome for one of more columns that rounding left other
\* than 0.
SvdOutcomes(matrix0, w, n) ==
    IF \/ np_size(matrix0) = 0
       \/ Shape1(matrix0) # Len(w)
       \/ max_components(n, matrix0) = 0
    THEN {[S2 |-> <<>>, V |-> <<>>]}
    ELSE
      LET cm == centered_matrix(weighted_matrix(
                    impute_missing_values(matrix0), w))
          exact == {[S2 |-> S2, V |-> V] :
                       S2 \in SquaredSingularValues(cm),
                       V \in LoadingMatrices(cm)}
          decomposed(g, r) ==
              {[S2 |-> ResidueSquaredSingularValues(g, r), V |-> V] :
                  V \in ResidueLoadings(g, r)}
          rounded(dm) ==
              IF \A c \in DoubleCells(dm) : c = DZero THEN exact
              ELSE IF Shape1(dm) # 2 THEN {}
              ELSE decomposed(Gram(ResidueMatrix(dm)), Min2(Shape0(dm), 2))
      IN IF ~IsZeroMatrix(cm) \/ CertainlyZero(matrix0, w) THEN exact
         ELSE rounded(centered_matrix_double(matrix0, w))

\* line 246
total_variance(S2) == FSum(S2)

\* the message of the ValueError numpy raises at line 220 when the matrix
\* has n columns and np.diag(weights) has k rows
matmul_mismatch(k, n) ==
    "matmul: Input operand 1 has a mismatch in its core dimension 0, "
        \o "with gufunc signature (n?,k),(k,m?)->(n?,m?) (size "
        \o ToString(k) \o " is different from " \o ToString(n) \o ")"

LatentEmpty ==
    [exc |-> "", exc_args |-> <<>>, member_latent_vectors |-> np_empty, V_k |-> np_empty,
     explained_variance_ratio |-> <<>>, S2 |-> <<>>]

\* S2 holds the squares of the singular values svd returned for the centered
\* matrix (one of SquaredSingularValues).
\* V is the N x min(M, N) matrix of right singular vectors svd returned.
calculate_cluster_latent_vectors(matrix0, w, n, V, S2) ==
    IF np_size(matrix0) = 0 THEN LatentEmpty
    ELSE IF Shape1(matrix0) # Len(w)
    THEN [LatentEmpty EXCEPT
             !.exc = "ValueError",
             !.exc_args = <<matmul_mismatch(Len(w), Shape1(matrix0))>>]
    ELSE
      LET matrix == impute_missing_values(matrix0)
          cm == centered_matrix(weighted_matrix(matrix, w))
          mc == max_components(n, cm)
          r == Min2(Shape0(cm), Shape1(cm))
          kept == SliceStopLen(mc, r)
      IN IF mc = 0 THEN LatentEmpty
         ELSE
           [exc |-> "", exc_args |-> <<>>,
            member_latent_vectors |->
               [i \in 1..Shape0(cm) |-> [d \in 1..kept |-> <<"US", i, d>>]],
            V_k |-> [j \in 1..Shape1(cm) |-> [d \in 1..kept |-> V[j][d]]],
            explained_variance_ratio |->
               IF FLess(FInt(0), total_variance(S2))
               THEN [d \in 1..kept |-> FDiv(S2[d], total_variance(S2))]
               ELSE <<>>,
            S2 |-> S2]

(***************************************************************************)
(* find_representative_bills                                               *)
(***************************************************************************)
\* np.argsort with the default kind, "quicksort".  npy_aquicksort for
\* doubles runs the vectorised argsort of x86-simd-sort on processors with
\* AVX512 (numpy 1.25 on) or AVX2 (numpy 2.0 on) and the scalar aquicksort_
\* elsewhere; neither keeps the indices of equal values in order.
\*
\* aquicksort_ sorts a range of up to SMALL_QUICKSORT + 1 indices by
\* insertion and partitions a longer one around the median of its first,
\* middle and last values.  Insertion leaves the indices of equal values in
\* ascending order; the partition does not.  The indices are those of the
\* model, from 1; tosort is the index array, pl and pr the ends of the
\* range.
SMALL_QUICKSORT == 16

\* the order of doubles in numpy's sorts: nan after every number
np_less(a, b) == FLess(a, b) \/ (np_isnan(b) /\ ~np_isnan(a))

INTP_SWAP(tosort, i, j) == [tosort EXCEPT ![i] = tosort[j], ![j] = tosort[i]]

\* the three conditional swaps that put the median at pm
MedianOfThree(v, tosort, pl, pm, pr) ==
    LET second(t) ==
            IF np_less(v[t[pr]], v[t[pm]]) THEN INTP_SWAP(t, pr, pm) ELSE t
        third(t) ==
            IF np_less(v[t[pm]], v[t[pl]]) THEN INTP_SWAP(t, pm, pl) ELSE t
    IN third(second(IF np_less(v[tosort[pm]], v[tosort[pl]])
                    THEN INTP_SWAP(tosort, pm, pl) ELSE tosort))

\* do ++pi while v[*pi] < vp, and do --pj while vp < v[*pj]
RECURSIVE ScanUp(_, _, _, _)
ScanUp(v, tosort, vp, pi) ==
    IF np_less(v[tosort[pi + 1]], vp) THEN ScanUp(v, tosort, vp, pi + 1)
    ELSE pi + 1

RECURSIVE ScanDown(_, _, _, _)
ScanDown(v, tosort, vp, pj) ==
    IF np_less(vp, v[tosort[pj - 1]]) THEN ScanDown(v, tosort, vp, pj - 1)
    ELSE pj - 1

\* the loop that swaps across the pivot until the scans meet
RECURSIVE PartitionLoop(_, _, _, _, _)
PartitionLoop(v, tosort, vp, pi, pj) ==
    LET met(pi2, pj2) ==
            IF pi2 >= pj2 THEN [tosort |-> tosort, pi |-> pi2]
            ELSE PartitionLoop(v, INTP_SWAP(tosort, pi2, pj2), vp, pi2, pj2)
    IN met(ScanUp(v, tosort, vp, pi), ScanDown(v, tosort, vp, pj))

\* one partition of the range pl .. pr: the index array it leaves and the
\* place pi of the pivot
Partition(v, tosort, pl, pr) ==
    LET pm == pl + (pr - pl) \div 2
        around(t) ==
            LET p == PartitionLoop(v, INTP_SWAP(t, pm, pr - 1), v[t[pm]],
                                   pl, pr - 1)
            IN [tosort |-> INTP_SWAP(p.tosort, p.pi, pr - 1), pi |-> p.pi]
    IN around(MedianOfThree(v, tosort, pl, pm, pr))

\* the insertion sort of the range pl .. pr: every index goes behind the
\* indices of the range whose value is smaller, or equal and earlier in it
InsertionSorted(v, tosort, pl, pr) ==
    LET before(k, i) ==
            \/ np_less(v[tosort[k]], v[tosort[i]])
            \/ ~np_less(v[tosort[i]], v[tosort[k]]) /\ k < i
        place(i) == pl + Cardinality({k \in pl..pr : before(k, i)})
    IN [x \in 1..Len(tosort) |->
          IF x < pl \/ x > pr THEN tosort[x]
          ELSE tosort[CHOOSE i \in pl..pr : place(i) = x]]

\* the two ranges a partition leaves are sorted one after the other
RECURSIVE aquicksort(_, _, _, _)
aquicksort(v, tosort, pl, pr) ==
    LET rest(p) ==
            aquicksort(v, aquicksort(v, p.tosort, pl, p.pi - 1), p.pi + 1, pr)
    IN IF pr - pl > SMALL_QUICKSORT THEN rest(Partition(v, tosort, pl, pr))
       ELSE InsertionSorted(v, tosort, pl, pr)

\* the orders of a list
PermsOf(s) ==
    {[i \in 1..Len(s) |-> s[p[i]]] : p \in Permutations(1..Len(s))}

\* every order of the places from .. Len(asc) of a sorted index array asc
\* that leaves the values ascending: the indices of a run of equal values,
\* which ends at place e, in any order
RECURSIVE TieOrders(_, _, _)
TieOrders(v, asc, from) ==
    IF from > Len(asc) THEN {<<>>}
    ELSE LET e == CHOOSE e \in from..Len(asc) :
                     /\ ~np_less(v[asc[from]], v[asc[e]])
                     /\ e = Len(asc) \/ np_less(v[asc[from]], v[asc[e + 1]])
             later == TieOrders(v, asc, e + 1)
         IN {run \o rest : run \in PermsOf(SubSeq(asc, from, e)),
                           rest \in later}

\* what the vectorised argsort can return: its networks compare and
\* exchange values in an order of their own, and the model takes every
\* ascending order of the indices for its outcome
ArgQSort(vals) ==
    LET indices == [i \in 1..Len(vals) |-> i]
    IN TieOrders(vals, InsertionSorted(vals, indices, 1, Len(vals)), 1)

\* the outcome of the scalar routine
GenericArgSort(vals) ==
    aquicksort(vals, [i \in 1..Len(vals) |-> i], 1, Len(vals))

\* npy_aquicksort: one routine or the other.  aquicksort_ turns to
\* heapsort, which the model leaves out, after 2 * floor(log2(n))
\* partitions in a row: arrays of up to MaxSorted values do not reach it
np_argsort(vals) ==
    IF Len(vals) > MaxSorted THEN {}
    ELSE {GenericArgSort(vals)} \cup ArgQSort(vals)

\* line 275: the absolute loadings of one dimension
AbsLoadings(loadings_matrix, dim) ==
    [j \in 1..Shape0(loadings_matrix) |-> FAbs(loadings_matrix[j][dim])]

\* what np.argsort returns in every iteration of the loop at line 273
ArgSortChoices(loadings_matrix) ==
    LET dims == 1..Shape1(loadings_matrix)
        sorts == [dim \in dims |-> np_argsort(AbsLoadings(loadings_matrix, dim))]
    IN {o \in [dims -> UNION {sorts[dim] : dim \in dims}] :
            \A dim \in dims : o[dim] \in sorts[dim]}

Reverse(s) == [i \in 1..Len(s) |-> s[Len(s) + 1 - i]]

\* the extractor listing the first dimension only
find_representative_billsFirstOnly(loadings_matrix, bids, details, top_n, argsorted) ==
    IF np_size(loadings_matrix) = 0 THEN <<>>
    ELSE
      [dim \in 1..Min2(1, Shape1(loadings_matrix)) |->
         LET loadings == AbsLoadings(loadings_matrix, dim)
             order == argsorted[dim]
             top_indices == Reverse(SubSeq(order,
                                SliceLastStart(top_n, Len(order)), Len(order)))
         IN [t \in 1..Len(top_indices) |->
               [billId |-> details[top_indices[t]].billId,
                title |-> details[top_indices[t]].title,
                passed |-> details[top_indices[t]].passed,
                deliberationCompleted |->
                    details[top_indices[t]].deliberationCompleted,
                loading |-> loadings_matrix[top_indices[t]][dim],
                absLoading |-> loadings[top_indices[t]]]]]

\* the extractor with the detail record taken at the place in the list
\* instead of at the selected index
find_representative_billsByPlace(loadings_matrix, bids, details, top_n, argsorted) ==
    IF np_size(loadings_matrix) = 0 THEN <<>>
    ELSE
      [dim \in 1..Shape1(loadings_matrix) |->
         LET loadings == AbsLoadings(loadings_matrix, dim)
             order == argsorted[dim]
             top_indices == Reverse(SubSeq(order,
                                SliceLastStart(top_n, Len(order)), Len(order)))
         IN [t \in 1..Len(top_indices) |->
               [billId |-> details[t].billId,
                title |-> details[t].title,
                passed |-> details[t].passed,
                deliberationCompleted |-> details[t].deliberationCompleted,
                loading |-> loadings_matrix[top_indices[t]][dim],
                absLoading |-> loadings[top_indices[t]]]]]

\* argsorted[dim] is what np.argsort returned in iteration dim
find_representative_bills(loadings_matrix, bids, details, top_n, argsorted) ==
    IF np_size(loadings_matrix) = 0 THEN <<>>
    ELSE
      [dim \in 1..Shape1(loadings_matrix) |->
         LET loadings == AbsLoadings(loadings_matrix, dim)
             order == argsorted[dim]
             top_indices == Reverse(SubSeq(order,
                                SliceLastStart(top_n, Len(order)), Len(order)))
         IN [t \in 1..Len(top_indices) |->
               [billId |-> details[top_indices[t]].billId,
                title |-> details[top_indices[t]].title,
                passed |-> details[top_indices[t]].passed,
                deliberationCompleted |->
                    details[top_indices[t]].deliberationCompleted,
                loading |-> loadings_matrix[top_indices[t]][dim],
                absLoading |-> loadings[top_indices[t]]]]]

(***************************************************************************)
(* calculate_vectors_for_cluster: the dicts it returns                     *)
(***************************************************************************)
\* lines 317-325
ResultNoMatrixRequested ==
    [memberVectors |-> EmptyDict, billLoadings |-> <<>>,
     representativeBills |-> <<>>, explainedVariance |-> <<>>,
     dimensions |-> n_components, memberCount |-> 0, billCount |-> 0]
ResultNoMatrix ==
    [memberVectors |-> EmptyDict, billLoadings |-> <<>>,
     representativeBills |-> <<>>, explainedVariance |-> <<>>,
     dimensions |-> 0, memberCount |-> 0, billCount |-> 0]

\* lines 333-341
ResultNoLatent(mids, bids) ==
    [memberVectors |-> EmptyDict, billLoadings |-> <<>>,
     representativeBills |-> <<>>, explainedVariance |-> <<>>,
     dimensions |-> 0, memberCount |-> Len(mids), billCount |-> Len(bids)]

\* lines 343-362
ResultVectors(latent, loadings, variance, mids, bids, details, argsorted) ==
    [memberVectors |->
        [m \in {mids[i] : i \in 1..Len(mids)} |->
            latent[CHOOSE i \in 1..Len(mids) :
                     mids[i] = m /\ \A i2 \in (i+1)..Len(mids) : mids[i2] # m]],
     billLoadings |-> IF np_size(loadings) > 0 THEN loadings ELSE <<>>,
     representativeBills |-> 
        find_representative_bills(loadings, bids, details, 3, argsorted),
     explainedVariance |-> variance,
     dimensions |-> Shape1(latent),
     memberCount |-> Len(mids),
     billCount |-> Len(bids),
     billIds |-> bids]

(***************************************************************************)
(* The inputs explored.                                                    *)
(***************************************************************************)
SeqsUpTo(S, n) == UNION {[1..k -> S] : k \in 0..n}

\* the memberScores entries explored: member 1 with a score that normalizes
\* to 0 and with one above the source range, member 2 with the latter
MemberScoreRecords ==
    {[memberId |-> v[1], score |-> v[2], memberName |-> MemberName(v[1])] :
        v \in {<<1, 1>>, <<1, 14>>, <<2, 14>>}}

LegislationRecords ==
    [billId : BillIds,
     memberScores : SeqsUpTo(MemberScoreRecords, MaxMemberScores)]

\* a row of load_bill_info
BillInfoRow(b, passed, completed) ==
    [id |-> b, passed |-> passed, deliberation_completed |-> completed,
     title |-> IF b = 10 THEN "bill ten" ELSE "bill twenty",
     description |-> ""]

BillInfoChoices ==
    {EmptyDict,
     (10 :> BillInfoRow(10, TRUE, TRUE)) @@ (20 :> BillInfoRow(20, FALSE, TRUE))}

NotCalled ==
    /\ voting_matrix = np_empty /\ member_ids = <<>> /\ bill_ids = <<>>
    /\ weights = <<>> /\ bill_details = <<>>
    /\ member_latent = np_empty /\ bill_loadings = np_empty
    /\ explained_variance = <<>> /\ S_squared = <<>>
    /\ result = EmptyDict /\ raised = "" /\ raised_args = <<>>

Init ==
    /\ legislation_scores \in SeqsUpTo(LegislationRecords, MaxLegs)
    /\ cluster_bills \in SeqsUpTo(BillIds, MaxClusterLen)
    /\ bill_info \in BillInfoChoices
    /\ n_components \in 0..MaxK
    /\ pc = "start"
    /\ NotCalled
    /\ ns_args = <<>> /\ ns_ret = <<>>
    /\ call_args = <<>> /\ call_ret = <<>>

(***************************************************************************)
(* calculate_vectors_for_cluster, statement by statement.                  *)
(***************************************************************************)
args == <<legislation_scores, cluster_bills, bill_info, n_components>>
standalone == <<ns_args, ns_ret, call_args, call_ret>>

\* lines 312-314
BuildVotingMatrix ==
    /\ pc = "start"
    /\ LET b == build_voting_matrix(legislation_scores, cluster_bills,
                                    bill_info)
       IN IF b.exc # ""
          THEN /\ raised' = b.exc
               /\ raised_args' = b.exc_args
               /\ pc' = "raised"
               /\ UNCHANGED <<voting_matrix, member_ids, bill_ids, weights,
                              bill_details>>
          ELSE /\ voting_matrix' = b.matrix
               /\ member_ids' = b.member_ids
               /\ bill_ids' = b.bill_ids
               /\ weights' = b.weights
               /\ bill_details' = b.bill_details
               /\ pc' = "built"
               /\ UNCHANGED <<raised, raised_args>>
    /\ UNCHANGED <<args, member_latent, bill_loadings, explained_variance,
                   S_squared, result, standalone>>

\* lines 316-325
ReturnNoMatrix ==
    /\ pc = "built"
    /\ np_size(voting_matrix) = 0
    /\ result' = ResultNoMatrix
    /\ pc' = "done"
    /\ UNCHANGED <<args, voting_matrix, member_ids, bill_ids, weights,
                   bill_details, member_latent, bill_loadings,
                   explained_variance, S_squared, raised, raised_args, standalone>>

\* lines 328-330
CalculateLatentVectors ==
    /\ pc = "built"
    /\ np_size(voting_matrix) # 0
    /\ \E svd \in SvdOutcomes(voting_matrix, weights, n_components) :
         LET l == calculate_cluster_latent_vectors(voting_matrix, weights,
                                                   n_components, svd.V, svd.S2)
         IN IF l.exc # ""
            THEN /\ raised' = l.exc
                 /\ raised_args' = l.exc_args
                 /\ pc' = "raised"
                 /\ UNCHANGED <<member_latent, bill_loadings,
                                explained_variance, S_squared>>
            ELSE /\ member_latent' = l.member_latent_vectors
                 /\ bill_loadings' = l.V_k
                 /\ explained_variance' = l.explained_variance_ratio
                 /\ S_squared' = l.S2
                 /\ pc' = "factored"
                 /\ UNCHANGED <<raised, raised_args>>
    /\ UNCHANGED <<args, voting_matrix, member_ids, bill_ids, weights,
                   bill_details, result, standalone>>

\* lines 332-341
ReturnNoLatent ==
    /\ pc = "factored"
    /\ np_size(member_latent) = 0
    /\ result' = ResultNoLatent(member_ids, bill_ids)
    /\ pc' = "done"
    /\ UNCHANGED <<args, voting_matrix, member_ids, bill_ids, weights,
                   bill_details, member_latent, bill_loadings,
                   explained_variance, S_squared, raised, raised_args, standalone>>

\* lines 343-362
ReturnVectors ==
    /\ pc = "factored"
    /\ np_size(member_latent) # 0
    /\ \E argsorted \in ArgSortChoices(bill_loadings) :
         result' = ResultVectors(member_latent, bill_loadings,
                                 explained_variance, member_ids, bill_ids,
                                 bill_details, argsorted)
    /\ pc' = "done"
    /\ UNCHANGED <<args, voting_matrix, member_ids, bill_ids, weights,
                   bill_details, member_latent, bill_loadings,
                   explained_variance, S_squared, raised, raised_args, standalone>>

Next ==
    \/ BuildVotingMatrix
    \/ ReturnNoMatrix
    \/ CalculateLatentVectors
    \/ ReturnNoLatent
    \/ ReturnVectors

Spec == Init /\ [][Next]_vars

(***************************************************************************)
(* normalize_score called on its own.                                      *)
(***************************************************************************)
InitNormalize ==
    /\ legislation_scores = <<>> /\ cluster_bills = <<>>
    /\ bill_info = EmptyDict /\ n_components = 0
    /\ pc = "normalize"
    /\ NotCalled
    /\ ns_args \in {<<sc, r[1], r[2]>> :
                      sc \in (-MaxAbsScore)..MaxAbsScore,
                      r \in {<<DefaultMinScore, DefaultMaxScore>>,
                             <<0, 10>>, <<5, 5>>}}
    /\ ns_ret = <<>>
    /\ call_args = <<>> /\ call_ret = <<>>

\* line 109; the float division raises when max_score = min_score
NormalizeScore ==
    /\ pc = "normalize"
    /\ IF ns_args[3] - ns_args[2] = 0
       THEN /\ raised' = "ZeroDivisionError"
            /\ raised_args' = <<"float division by zero">>
            /\ pc' = "raised"
            /\ UNCHANGED ns_ret
       ELSE /\ ns_ret' = normalize_score(ns_args[1], ns_args[2], ns_args[3])
            /\ pc' = "normalized"
            /\ UNCHANGED <<raised, raised_args>>
    /\ UNCHANGED <<args, voting_matrix, member_ids, bill_ids, weights,
                   bill_details, member_latent, bill_loadings,
                   explained_variance, S_squared, result, ns_args, call_args, call_ret>>

NextNormalize == NormalizeScore

SpecNormalize == InitNormalize /\ [][NextNormalize]_vars

(***************************************************************************)
(* get_bill_weight called on its own.                                      *)
(***************************************************************************)
\* info dicts with any subset of the keys the function and its callers use
WeightInfos ==
    {[k \in K |-> full[k]] :
        full \in [passed : BOOLEAN, deliberation_completed : BOOLEAN,
                  title : {"bill ten", "bill twenty"}],
        K \in SUBSET {"passed", "deliberation_completed", "title"}}

WeightTitles == {"", "bill ten", "amendment"}

InitWeight ==
    /\ legislation_scores = <<>> /\ cluster_bills = <<>>
    /\ bill_info = EmptyDict /\ n_components = 0
    /\ pc = "weight"
    /\ NotCalled
    /\ ns_args = <<>> /\ ns_ret = <<>>
    /\ call_args \in WeightInfos \X WeightTitles
    /\ call_ret = <<>>

\* lines 81-101
GetBillWeight ==
    /\ pc = "weight"
    /\ call_ret' = get_bill_weight(call_args[1], call_args[2])
    /\ pc' = "weighed"
    /\ UNCHANGED <<args, voting_matrix, member_ids, bill_ids, weights,
                   bill_details, member_latent, bill_loadings,
                   explained_variance, S_squared, result, raised, raised_args, ns_args, ns_ret,
                   call_args>>

NextWeight == GetBillWeight

SpecWeight == InitWeight /\ [][NextWeight]_vars

(***************************************************************************)

(* impute_missing_values called on its own.                                *)
(***************************************************************************)
\* 2-D arrays of the given cells with 1..rows rows and 1..cols columns
MatricesOf(cells, rows, cols) ==
    UNION {[1..m -> [1..n -> cells]] : m \in 1..rows, n \in 1..cols}

InitImpute ==
    /\ legislation_scores = <<>> /\ cluster_bills = <<>>
    /\ bill_info = EmptyDict /\ n_components = 0
    /\ pc = "impute"
    /\ NotCalled
    /\ ns_args = <<>> /\ ns_ret = <<>>
    \* an absent cell and two present values whose mean is neither of them
    /\ call_args \in {<<m>> : m \in MatricesOf({np_nan, FInt(1), FInt(2)},
                                               MaxRows, MaxCols)}
    /\ call_ret = <<>>

\* what a call leaves behind: the array it returns and the array the
\* caller passed.  Line 183 copies the argument and lines 186-190 write to
\* the copy.
impute_callInPlace(matrix) ==
    [ret |-> impute_missing_values(matrix),
     arg |-> impute_missing_values(matrix)]
impute_call(matrix) ==
    [ret |-> impute_missing_values(matrix), arg |-> matrix]

\* lines 178-192
ImputeMissingValues ==
    /\ pc = "impute"
    /\ call_ret' = impute_call(call_args[1]).ret
    /\ call_args' = <<impute_call(call_args[1]).arg>>
    /\ pc' = "imputed"
    /\ UNCHANGED <<args, voting_matrix, member_ids, bill_ids, weights,
                   bill_details, member_latent, bill_loadings,
                   explained_variance, S_squared, result, raised, raised_args, ns_args, ns_ret>>

NextImpute == ImputeMissingValues

SpecImpute == InitImpute /\ [][NextImpute]_vars

(***************************************************************************)

(* find_representative_bills called on its own.                            *)
(***************************************************************************)
\* one column of loadings for more items than aquicksort_ sorts by
\* insertion: 18, 18, 16, 15, ..., 1, the first two items tied
ManyLoadings ==
    [j \in 1..(SMALL_QUICKSORT + 2) |->
        <<FInt(IF j = 2 THEN SMALL_QUICKSORT + 2
               ELSE SMALL_QUICKSORT + 3 - j)>>]

InitExtract ==
    /\ legislation_scores = <<>> /\ cluster_bills = <<>>
    /\ bill_info = EmptyDict /\ n_components = 0
    /\ pc = "extract"
    /\ NotCalled
    /\ ns_args = <<>> /\ ns_ret = <<>>
    \* loadings with two equal absolute values of opposite sign and a smaller
    \* one, and ManyLoadings; the item of row j is 10 * j
    /\ call_args \in {<<m, [j \in 1..Len(m) |-> 10 * j],
                         [j \in 1..Len(m) |-> BillDetail(10 * j, EmptyDict)],
                         t>> :
                        m \in MatricesOf({FInt(-2), FInt(1), FInt(2)},
                                         MaxRows, MaxCols)
                                 \cup {ManyLoadings},
                        t \in 0..MaxTopN}
    /\ call_ret = <<>>

\* lines 254-292
FindRepresentativeBills ==
    /\ pc = "extract"
    /\ \E argsorted \in ArgSortChoices(call_args[1]) :
         call_ret' = find_representative_bills(call_args[1], call_args[2],
                                               call_args[3], call_args[4],
                                               argsorted)
    /\ pc' = "extracted"
    /\ UNCHANGED <<args, voting_matrix, member_ids, bill_ids, weights,
                   bill_details, member_latent, bill_loadings,
                   explained_variance, S_squared, result, raised, raised_args, ns_args, ns_ret,
                   call_args>>

NextExtract == FindRepresentativeBills

SpecExtract == InitExtract /\ [][NextExtract]_vars

(***************************************************************************)

(* calculate_vectors_for_cluster on the two-member, two-item example:      *)
(* member 1 scores 6 on item 10, member 2 scores -2 on item 10 and 4 on    *)
(* item 20, item 10 passed, item 20 failed after its deliberation, and at  *)
(* least two dimensions are requested.  The records, the votes inside a    *)
(* record and the cluster's items are given in every order.                *)
(***************************************************************************)
ExampleVote(m, s) == [memberId |-> m, score |-> s, memberName |-> MemberName(m)]

ExampleScores ==
    LET r10(votes) == [billId |-> 10, memberScores |-> votes]
        r20 == [billId |-> 20, memberScores |-> <<ExampleVote(2, 4)>>]
        orders == {<<ExampleVote(1, 6), ExampleVote(2, -2)>>,
                   <<ExampleVote(2, -2), ExampleVote(1, 6)>>}
    IN {<<r10(o), r20>> : o \in orders} \cup {<<r20, r10(o)>> : o \in orders}

InitExample ==
    /\ legislation_scores \in ExampleScores
    /\ cluster_bills \in {<<10, 20>>, <<20, 10>>}
    /\ bill_info = (10 :> BillInfoRow(10, TRUE, TRUE))
                      @@ (20 :> BillInfoRow(20, FALSE, TRUE))
    /\ n_components \in 2..(MaxK + 2)
    /\ pc = "start"
    /\ NotCalled
    /\ ns_args = <<>> /\ ns_ret = <<>>
    /\ call_args = <<>> /\ call_ret = <<>>

\* the statements the example runs through
NextExample ==
    \/ BuildVotingMatrix
    \/ CalculateLatentVectors
    \/ ReturnVectors

SpecExample == InitExample /\ [][NextExample]_vars

(***************************************************************************)

(* calculate_vectors_for_cluster on vote records that may be malformed.    *)
(* A JSON string under the key "score" is written as the key "scoreText":  *)
(* a number and a string cannot stand at the same place of two records.    *)
(***************************************************************************)
\* two well-formed memberScores entries, and entries of member 1 that lack
\* one key or carry a text as score
VotesExplored ==
    {ExampleVote(1, 1), ExampleVote(2, 14),
     [memberId |-> 1, memberName |-> "A"],
     [score |-> 1, memberName |-> "A"],
     [memberId |-> 1, score |-> 1],
     [memberId |-> 1, scoreText |-> "abc", memberName |-> "A"]}

InitMalformed ==
    /\ legislation_scores \in
         SeqsUpTo([billId : BillIds,
                   memberScores : SeqsUpTo(VotesExplored, MaxMemberScores)], 1)
    /\ cluster_bills \in {<<>>, <<10>>, <<10, 20>>}
    /\ bill_info = EmptyDict
    /\ n_components \in 0..1
    /\ pc = "start"
    /\ NotCalled
    /\ ns_args = <<>> /\ ns_ret = <<>>
    /\ call_args = <<>> /\ call_ret = <<>>

SpecMalformed == InitMalformed /\ [][Next]_vars

(***************************************************************************)
(* calculate_vectors_for_cluster called with n_components <= 0: the        *)
(* parameter is a plain int (line 300) and nothing checks its sign.        *)
(***************************************************************************)
InitNegativeK ==
    /\ legislation_scores \in SeqsUpTo(LegislationRecords, MaxLegs)
    /\ cluster_bills \in SeqsUpTo(BillIds, MaxClusterLen)
    /\ bill_info \in BillInfoChoices
    /\ n_components \in (-MaxK)..0
    /\ pc = "start"
    /\ NotCalled
    /\ ns_args = <<>> /\ ns_ret = <<>>
    /\ call_args = <<>> /\ call_ret = <<>>

SpecNegativeK == InitNegativeK /\ [][Next]_vars

(***************************************************************************)
(* What the properties below speak about.                                  *)
(***************************************************************************)
SeqSet(s) == {s[i] : i \in 1..Len(s)}
NoDuplicates(s) == \A i, j \in 1..Len(s) : i # j => s[i] # s[j]
IsAscending(s) == \A i \in 1..(Len(s) - 1) : s[i] <= s[i + 1]

\* every vote of the input as <<bill id, member id, raw score>>
AllVotes(scores) ==
    UNION {{<<scores[r].billId, scores[r].memberScores[k].memberId,
              scores[r].memberScores[k].score>> :
               k \in 1..Len(scores[r].memberScores)} : r \in 1..Len(scores)}

\* the raw scores of the votes by member m on bill b
VoteScores(scores, m, b) ==
    {v[3] : v \in {w \in AllVotes(scores) : w[1] = b /\ w[2] = m}}

\* the members with at least one vote on a bill of the cluster
Voters(scores, cluster) ==
    {v[2] : v \in {w \in AllVotes(scores) : w[1] \in SeqSet(cluster)}}

Returned == pc = "done"
\* the positions of a call no exception has left
Positions == {"start", "built", "factored", "done"}
Built == pc \in {"built", "factored", "done"}

ResultKeys ==
    {"memberVectors", "billLoadings", "representativeBills",
     "explainedVariance", "dimensions", "memberCount", "billCount"}

AllOutputsEmpty ==
    /\ result.memberVectors = EmptyDict
    /\ result.billLoadings = <<>>
    /\ result.representativeBills = <<>>
    /\ result.explainedVariance = <<>>

\* sum of the present values of column j of m over the rows in rows
RECURSIVE SumPresent(_, _, _)
SumPresent(m, j, rows) ==
    IF rows = {} THEN FInt(0)
    ELSE LET i == CHOOSE r \in rows : TRUE
         IN FAdd(m[i][j], SumPresent(m, j, rows \ {i}))

PresentRows(m, j) == {i \in 1..Len(m) : m[i][j].d # 0}

\* C1: with an empty cluster item list the call raises nothing (it is always
\* at one of its statements or at its return, never left by an exception)
\* and returns memberCount = 0, billCount = 0, dimensions = 0 and
\* empty memberVectors, billLoadings, representativeBills, explainedVariance,
\* whatever the vote records and the metadata are.
C1_EmptyCluster ==
    cluster_bills = <<>> =>
        /\ pc \in Positions /\ raised = ""
        /\ Returned =>
             /\ result.memberCount = 0
             /\ result.billCount = 0
             /\ result.dimensions = 0
             /\ AllOutputsEmpty

C1_Witness ==
    /\ Returned /\ cluster_bills = <<>>
    /\ Len(legislation_scores) = MaxLegs
    /\ AllVotes(legislation_scores) # {}
    /\ bill_info # EmptyDict
    /\ n_components > 0

\* C2: every result reports memberCount = the number of distinct members with
\* a vote on an item of the cluster and billCount = the number of items of
\* the cluster (stated for clusters that list each item once).
C2_CountsAccurate ==
    (Returned /\ NoDuplicates(cluster_bills)) =>
        /\ result.memberCount = Cardinality(Voters(legislation_scores, cluster_bills))
        /\ result.billCount = Len(cluster_bills)

\* C3: for a non-negative requested number of components the result's
\* dimensions field is min(requested, M, N), M and N being the rows and
\* columns of the built matrix; with M = 0 or N = 0 it is 0 and every
\* vector, loading and variance output is empty.
C3_Dimensions ==
    (Returned /\ n_components >= 0) =>
        LET M == Shape0(voting_matrix)
            N == Shape1(voting_matrix)
        IN /\ result.dimensions = Min3(n_components, M, N)
           /\ (M = 0 \/ N = 0) => (result.dimensions = 0 /\ AllOutputsEmpty)

C3_Witness ==
    /\ Returned
    /\ n_components = 2
    /\ Shape0(voting_matrix) = 2 /\ Shape1(voting_matrix) = 1
    /\ result.dimensions = 1

\* C4: on well-formed input (empty or not, degenerate or not) the call is
\* never left by an exception: it is at one of its statements or has returned
\* a result dict.
C4_NeverRaises ==
    /\ pc \in Positions /\ raised = ""
    /\ Returned => ResultKeys \subseteq DOMAIN result

C4_Witness ==
    /\ Returned /\ raised = ""
    /\ Len(member_ids) = 1 /\ Len(bill_ids) = 1
    /\ bill_info = EmptyDict
    /\ result.dimensions = 1

\* the weighted, row-centered matrix the decomposition receives
CenteredOfBuilt ==
    centered_matrix(weighted_matrix(impute_missing_values(voting_matrix), weights))

ZeroTotalVariance ==
    /\ np_size(voting_matrix) # 0
    /\ SumSquares(CenteredOfBuilt) = FInt(0)

\* C5: in each degenerate case (no member voted in the cluster, the cluster
\* has no item, zero effective dimensions, zero total variance of the
\* weighted row-centered matrix) the result has dimensions = 0 and an empty
\* memberVectors map.
C5_DegenerateRecognisable ==
    (/\ Returned
     /\ \/ Voters(legislation_scores, cluster_bills) = {}
        \/ cluster_bills = <<>>
        \/ Min3(n_components, Shape0(voting_matrix), Shape1(voting_matrix)) = 0
        \/ ZeroTotalVariance)
    => (result.dimensions = 0 /\ result.memberVectors = EmptyDict)

(***************************************************************************)
(* Reorderings of the input.                                               *)
(***************************************************************************)
\* the same records with each record's memberScores in any order
InnerReorderings(scores) ==
    {q \in [1..Len(scores) ->
              UNION {{[scores[i] EXCEPT !.memberScores = ms] :
                        ms \in PermsOf(scores[i].memberScores)} :
                     i \in 1..Len(scores)}] :
        \A i \in 1..Len(scores) :
            /\ q[i].billId = scores[i].billId
            /\ q[i].memberScores \in PermsOf(scores[i].memberScores)}

\* every order of the records and of the votes inside each record
Reorderings(scores) == UNION {PermsOf(q) : q \in InnerReorderings(scores)}

\* the same votes, every one with raw score sc
Rescored(scores, sc) ==
    [i \in 1..Len(scores) |->
       [scores[i] EXCEPT !.memberScores =
          [k \in 1..Len(scores[i].memberScores) |->
             [scores[i].memberScores[k] EXCEPT !.score = sc]]]]

SameOrderAsBuilt(b) ==
    /\ b.member_ids = member_ids
    /\ b.bill_ids = bill_ids
    /\ b.weights = weights
    /\ b.bill_details = bill_details

\* C6: the rows follow the member ids in ascending order and the columns the
\* item ids in ascending order; memberIds, itemIds, weights and itemDetails
\* are the same for every order of the vote records, every order of the
\* cluster item-id list and every choice of scores.
C6_OrderByIdentity ==
    pc = "built" =>
        /\ IsAscending(member_ids)
        /\ IsAscending(bill_ids)
        /\ \A ls \in Reorderings(legislation_scores), cb \in PermsOf(cluster_bills) :
              SameOrderAsBuilt(build_voting_matrix(ls, cb, bill_info))
        /\ \A sc \in {-12, 1, 14} :
              SameOrderAsBuilt(build_voting_matrix(
                  Rescored(legislation_scores, sc), cluster_bills, bill_info))

C6_Witness ==
    /\ pc = "built"
    /\ member_ids = <<1, 2>> /\ bill_ids = <<10, 20>>
    /\ cluster_bills = <<20, 10>>
    /\ legislation_scores[1].billId = 20
    /\ legislation_scores[1].memberScores # <<>>
    /\ legislation_scores[1].memberScores[1].memberId = 2

\* C7: the builder's item list holds each item id at most once, with one
\* column, one weight and one detail record per distinct id of the cluster.
C7_DistinctColumns ==
    Built =>
        /\ NoDuplicates(bill_ids)
        /\ np_size(voting_matrix) # 0 =>
             /\ Shape1(voting_matrix) = Cardinality(SeqSet(cluster_bills))
             /\ Len(weights) = Cardinality(SeqSet(cluster_bills))
             /\ Len(bill_details) = Cardinality(SeqSet(cluster_bills))

\* the records whose bill is in the cluster
RecordsInCluster ==
    SelectSeq(legislation_scores, LAMBDA r : r.billId \in SeqSet(cluster_bills))

\* C8: a member is a row exactly when the input holds a vote by that member
\* on an item of the cluster; the votes on other items change nothing the
\* builder returns.
C8_RowsAreClusterVoters ==
    Built =>
        /\ SeqSet(member_ids) = Voters(legislation_scores, cluster_bills)
        /\ NoDuplicates(member_ids)
        /\ LET b == build_voting_matrix(RecordsInCluster, cluster_bills, bill_info)
           IN /\ b.matrix = voting_matrix
              /\ SameOrderAsBuilt(b)

C8_Witness ==
    /\ pc = "built"
    /\ member_ids = <<1>>
    /\ cluster_bills = <<10>>
    /\ \E v \in AllVotes(legislation_scores) : v[1] = 20 /\ v[2] = 2

\* C9: before imputation a cell is normalize(raw score) of a vote by the
\* row's member on the column's item when there is one, and the absent marker
\* otherwise; the marker is no value normalize returns, so a cell is absent
\* exactly when there is no such vote.
C9_AbsentIffNoVote ==
    pc = "built" =>
      /\ \A sc \in -MaxAbsScore..MaxAbsScore :
            normalize_score(sc, DefaultMinScore, DefaultMaxScore) # absent_marker
      /\ \A i \in 1..Shape0(voting_matrix), j \in 1..Shape1(voting_matrix) :
            LET seen == VoteScores(legislation_scores, member_ids[i], bill_ids[j])
                cell == voting_matrix[i][j]
            IN /\ seen = {} => cell = absent_marker
               /\ seen # {} =>
                    cell \in {normalize_score(sc, DefaultMinScore, DefaultMaxScore) :
                                 sc \in seen}
               /\ np_isnan(cell) <=> seen = {}

C9_Witness ==
    /\ pc = "built"
    /\ Shape0(voting_matrix) = 2 /\ Shape1(voting_matrix) = 2
    /\ np_isnan(voting_matrix[1][2])
    /\ voting_matrix[1][1] = FInt(0)
    /\ voting_matrix[2][2] = Float(13, 11)

\* C10: normalize(score, min, max) is exactly 2*(score - min)/(max - min) - 1,
\* unclamped: with -10 and 12 it maps -10 to -1, 12 to 1, 1 to 0, is strictly
\* increasing, is below -1 for scores below -10 and above 1 for scores
\* above 12.
C10_NormalizeAffine ==
    pc = "normalized" =>
        LET sc == ns_args[1]
            lo == ns_args[2]
            hi == ns_args[3]
        IN /\ ns_ret.d > 0
           /\ ns_ret.n * (hi - lo) = (2 * (sc - lo) - (hi - lo)) * ns_ret.d
           /\ (lo = -10 /\ hi = 12) =>
                /\ sc = -10 => ns_ret = FInt(-1)
                /\ sc = 12 => ns_ret = FInt(1)
                /\ sc = 1 => ns_ret = FInt(0)
                /\ sc < -10 => FLess(ns_ret, FInt(-1))
                /\ sc > 12 => FLess(FInt(1), ns_ret)
                /\ FLess(normalize_score(sc - 1, lo, hi), ns_ret)

C10_Witness ==
    /\ pc = "normalized"
    /\ ns_args = <<14, -10, 12>>
    /\ ns_ret = Float(13, 11)

\* C11: when max_score = min_score, normalize_score never returns a value and
\* the error it fails with is a ConfigurationError, whatever the score.
C11_ConfigurationError ==
    (ns_args # <<>> /\ ns_args[3] = ns_args[2] /\ pc # "normalize")
        => (pc = "raised" /\ raised = "ConfigurationError" /\ ns_ret = <<>>)

\* C12: get_bill_weight returns for every info dict and every title: 1.0 when
\* the item passed, whatever its deliberation flag; 0.8 when it neither passed
\* nor completed deliberation; 0.6 when it did not pass and completed
\* deliberation; a missing flag counts as false, the title changes nothing,
\* and the call never raises.
C12_WeightTable ==
    /\ pc \in {"weight", "weighed"}
    /\ raised = ""
    /\ pc = "weighed" =>
         LET info == call_args[1]
             p == "passed" \in DOMAIN info /\ info["passed"]
             c == "deliberation_completed" \in DOMAIN info
                    /\ info["deliberation_completed"]
         IN /\ p => call_ret = [n |-> 1, d |-> 1]
            /\ (~p /\ ~c) => call_ret = [n |-> 4, d |-> 5]
            /\ (~p /\ c) => call_ret = [n |-> 3, d |-> 5]
            /\ \A t \in WeightTitles : get_bill_weight(info, t) = call_ret

\* a failed item whose deliberation completed has been weighed under a title
C12_Witness ==
    /\ pc = "weighed"
    /\ call_args[2] = "amendment"
    /\ call_args[1] = [passed |-> FALSE, deliberation_completed |-> TRUE]
    /\ call_ret = [n |-> 3, d |-> 5]

\* C13: after impute_missing_values no cell is absent; in a column with at
\* least one present value every formerly absent cell holds the mean of the
\* column's present values; in a column with no present value every cell
\* holds 0.0.
C13_ImputeColumnMean ==
    pc = "imputed" =>
      LET m == call_args[1]
          out == call_ret
      IN /\ Len(out) = Len(m)
         /\ \A i \in 1..Len(m) :
              /\ Len(out[i]) = Len(m[i])
              /\ \A j \in 1..Len(m[i]) :
                   LET rows == PresentRows(m, j)
                   IN /\ out[i][j].d # 0
                      /\ (rows # {} /\ i \notin rows) =>
                           out[i][j] = FDiv(SumPresent(m, j, rows),
                                            FInt(Cardinality(rows)))
                      /\ rows = {} => out[i][j] = [n |-> 0, d |-> 1]

\* a 3 x 2 matrix has been imputed whose first column has two different
\* present values and one absent cell, and whose second column is all absent
C13_Witness ==
    /\ pc = "imputed"
    /\ call_args[1] = << <<FInt(1), np_nan>>, <<np_nan, np_nan>>,
                         <<FInt(2), np_nan>> >>
    /\ call_ret[2] = << Float(3, 2), FInt(0) >>

\* the rows of the loading matrix whose item is named in a list of entries
RowsListed(entries, bids) ==
    {j \in 1..Len(bids) : \E t \in 1..Len(entries) : entries[t].billId = bids[j]}

\* C14: for every loading matrix and every top_n >= 0, top_n = 0 and
\* top_n > N included, find_representative_bills returns for every dimension
\* a list of at most top_n entries whose absLoading never increases along the
\* list, and no item left out of the list has a strictly larger absolute
\* loading in that dimension than an item in it.
C14_TopNByAbsLoading ==
    pc = "extracted" =>
      LET m == call_args[1]
          bids == call_args[2]
          top_n == call_args[4]
      IN /\ Len(call_ret) = Shape1(m)
         /\ \A dim \in 1..Len(call_ret) :
              LET entries == call_ret[dim]
                  listed == RowsListed(entries, bids)
              IN /\ Len(entries) <= top_n
                 /\ \A t \in 1..(Len(entries) - 1) :
                      ~FLess(entries[t].absLoading, entries[t + 1].absLoading)
                 /\ \A j \in (1..Len(bids)) \ listed : \A i \in listed :
                      ~FLess(FAbs(m[i][dim]), FAbs(m[j][dim]))

\* the same statement for top_n >= 1 only
C14_TopNPositive == (call_args # <<>> /\ call_args[4] >= 1) => C14_TopNByAbsLoading

\* position of the entry of the item bid in a list of entries, 0 if not listed
PositionOf(entries, bid) ==
    IF \E t \in 1..Len(entries) : entries[t].billId = bid
    THEN CHOOSE t \in 1..Len(entries) : entries[t].billId = bid
    ELSE 0

\* the later of two items of equal absolute loading stands before the other
\* in every list of entries, and is the one listed when only one of them is
LaterFirst(m, bids, lists) ==
    \A dim \in 1..Len(lists) : \A i, j \in 1..Len(bids) :
      (bids[i] < bids[j] /\ FAbs(m[i][dim]) = FAbs(m[j][dim])) =>
         LET pi == PositionOf(lists[dim], bids[i])
             pj == PositionOf(lists[dim], bids[j])
         IN /\ (pi # 0 /\ pj # 0) => pj < pi
            /\ pi # 0 => pj # 0

\* C15: when two items have equal absolute loading in a dimension,
\* find_representative_bills prefers the one later in ascending item-id
\* order: it stands before the other in the list, and when only one of the
\* two is in the list it is the later one.
C15_TieBreakLaterFirst ==
    pc = "extracted" => LaterFirst(call_args[1], call_args[2], call_ret)

\* what find_representative_bills returns where aquicksort_ is the routine
\* behind np.argsort
ExtractedByQuicksort ==
    find_representative_bills(
        call_args[1], call_args[2], call_args[3], call_args[4],
        [dim \in 1..Shape1(call_args[1]) |->
            GenericArgSort(AbsLoadings(call_args[1], dim))])

\* the same statement of that routine alone
C15_QuicksortLaterFirst ==
    pc = "extracted" =>
        LaterFirst(call_args[1], call_args[2], ExtractedByQuicksort)

\* ... and for the items it sorts by insertion
C15_QuicksortByInsertion ==
    (call_args # <<>> /\ Len(call_args[2]) <= SMALL_QUICKSORT + 1)
        => C15_QuicksortLaterFirst

\* what the result says about its explainedVariance list apart from its sum
\* reaching 1: non-increasing, every value in [0, 1], every value the square
\* of its singular value over the sum of the squares of all singular values,
\* and a sum of at most 1
VarianceRatios ==
    LET ev == result.explainedVariance
    IN /\ Len(ev) <= Len(S_squared)
       /\ \A d \in 1..(Len(ev) - 1) : ~FLess(ev[d], ev[d + 1])
       /\ \A d \in 1..Len(ev) :
            /\ ~FLess(ev[d], FInt(0)) /\ ~FLess(FInt(1), ev[d])
            /\ ev[d] = FDiv(S_squared[d], FSum(S_squared))
       /\ ~FLess(FInt(1), FSum(ev))

\* the result retains every dimension of the decomposition, and at least one
RetainsAllDimensions ==
    /\ result.dimensions >= 1
    /\ result.dimensions = Min2(result.memberCount, result.billCount)

\* C16: the explainedVariance list of every result is non-increasing, each
\* value lies in [0, 1] and is the squared singular value of its dimension
\* divided by the sum of the squares of all singular values, the values sum
\* to at most 1, and they sum to 1 when k = min(M, N).
C16_ExplainedVariance ==
    Returned =>
      /\ VarianceRatios
      /\ RetainsAllDimensions => FSum(result.explainedVariance) = FInt(1)

\* the same statement with the sum reaching 1 only asked of a decomposition
\* whose singular values are not all zero
C16_UnlessZeroVariance ==
    Returned =>
      /\ VarianceRatios
      /\ (RetainsAllDimensions /\ FLess(FInt(0), FSum(S_squared)))
            => FSum(result.explainedVariance) = FInt(1)

\* x is n thousandths when rounded to three decimals
About(x, n) ==
    /\ x.d # 0
    /\ ~FLess(FAdd(Float(n, 1000), Float(1, 2000)), x)
    /\ ~FLess(x, FSub(Float(n, 1000), Float(1, 2000)))

\* the example with the three normalized cells given in thousandths: member 1
\* on item 10, member 2 on item 10, member 2 on item 20
ExampleOutcome(c11, c21, c22) ==
    /\ pc \in {"built", "factored", "done"} =>
         /\ member_ids = <<1, 2>> /\ bill_ids = <<10, 20>>
         /\ About(voting_matrix[1][1], c11)
         /\ voting_matrix[1][2].d = 0
         /\ About(voting_matrix[2][1], c21)
         /\ About(voting_matrix[2][2], c22)
         /\ weights = << [n |-> 1, d |-> 1], [n |-> 3, d |-> 5] >>
    /\ pc \in {"factored", "done"} =>
         LET imputed == impute_missing_values(voting_matrix)
         IN /\ About(imputed[1][2], c22)
            /\ imputed[1][2] = voting_matrix[2][2]
    /\ pc = "done" =>
         /\ result.dimensions = 2
         /\ result.memberCount = 2
         /\ result.billCount = 2
         /\ FSum(result.explainedVariance) = FInt(1)

\* C18: in the end-to-end example the normalized cells are about 0.727,
\* -0.091 and 0.636, the imputed cell of member 1 on item 20 is 0.636, the
\* value of member 2's cell, the weights are 1.0 and 0.6, and the result has
\* dimensions = 2, memberCount = 2, billCount = 2 and an explainedVariance
\* that sums to 1.0.
C18_ExampleAsStated == ExampleOutcome(727, -91, 636)

\* C18, amended: the normalized cells are 5/11, -3/11 and 3/11 (about 0.455,
\* -0.273 and 0.273), the imputed cell of member 1 on item 20 is 3/11, the
\* value of member 2's cell; the weights, the counts, the dimensions and the
\* sum of explainedVariance are as stated.
C18_ExampleByFormula ==
    /\ ExampleOutcome(455, -273, 273)
    /\ pc \in {"built", "factored", "done"} =>
         /\ voting_matrix[1][1] = Float(5, 11)
         /\ voting_matrix[2][1] = Float(-3, 11)
         /\ voting_matrix[2][2] = Float(3, 11)

\* the example has returned, asked for three dimensions with the cluster's
\* items given in descending order
C18_Witness ==
    /\ pc = "done"
    /\ n_components = 3
    /\ cluster_bills = <<20, 10>>
    /\ voting_matrix[2] = << Float(-3, 11), Float(3, 11) >>
    /\ result.dimensions = 2
    /\ Len(result.explainedVariance) = 2

\* C19: in every result the explainedVariance list has exactly `dimensions`
\* entries, one per retained dimension, also when the weighted row-centered
\* matrix is all zero.
C19_VariancePerDimension ==
    Returned => Len(result.explainedVariance) = result.dimensions

\* C20: every result, the empty and the short-circuited ones included, has a
\* billIds field that lists the cluster's item ids in ascending order and
\* has billCount entries.
C20_BillIdsEverywhere ==
    Returned =>
      /\ "billIds" \in DOMAIN result
      /\ \A i \in 1..(Len(result.billIds) - 1) :
           result.billIds[i] <= result.billIds[i + 1]
      /\ {result.billIds[i] : i \in 1..Len(result.billIds)}
            = {cluster_bills[i] : i \in 1..Len(cluster_bills)}
      /\ Len(result.billIds) = result.billCount

\* the same statement for the results of the full path only
C20_BillIdsWhenFactored ==
    (Returned /\ np_size(member_latent) # 0) => C20_BillIdsEverywhere

\* the memberScores entries of the records of cluster items, in the order
\* the builder reads them, each with the item id of its record
RECURSIVE VotesRead(_, _)
VotesRead(scores, cluster) ==
    IF scores = <<>> THEN <<>>
    ELSE (IF InList(scores[1].billId, cluster)
          THEN [k \in 1..Len(scores[1].memberScores) |->
                  [billId |-> scores[1].billId,
                   vote |-> scores[1].memberScores[k]]]
          ELSE <<>>) \o VotesRead(Tail(scores), cluster)

IsMalformed(vote) ==
    \/ {"memberId", "memberName"} \ DOMAIN vote # {}
    \/ "score" \notin DOMAIN vote

\* the first malformed entry the builder reads; only used when there is one
FirstMalformed ==
    LET read == VotesRead(legislation_scores, cluster_bills)
        k == CHOOSE i \in 1..Len(read) :
               /\ IsMalformed(read[i].vote)
               /\ \A h \in 1..(i - 1) : ~IsMalformed(read[h].vote)
    IN read[k]

HasMalformed ==
    \E i \in 1..Len(VotesRead(legislation_scores, cluster_bills)) :
        IsMalformed(VotesRead(legislation_scores, cluster_bills)[i].vote)

\* ids as they are written in a message
IdText(i) == IF i = 1 THEN "1" ELSE IF i = 2 THEN "2"
             ELSE IF i = 10 THEN "10" ELSE "20"

\* a malformed record of a cluster item is never skipped: the call ends in
\* an exception and returns nothing
C21_NeverSkipped ==
    (HasMalformed /\ pc # "start") =>
        (pc = "raised" /\ raised # "" /\ result = EmptyDict)

\* C21: when a vote record of a cluster item lacks memberId, memberName or
\* score, or has a score that is not a number, the call fails and returns no
\* result, the record is never skipped, and the failure carries the item id
\* and the member id of the offending record.
C21_MalformedDiagnosed ==
    /\ C21_NeverSkipped
    /\ (HasMalformed /\ pc = "raised") =>
         /\ \E a \in 1..Len(raised_args) :
              raised_args[a] = IdText(FirstMalformed.billId)
         /\ "memberId" \in DOMAIN FirstMalformed.vote =>
              \E a \in 1..Len(raised_args) :
                 raised_args[a] = IdText(FirstMalformed.vote.memberId)

\* the places in the reading order of the votes by member m on item b
VotePlaces(m, b) ==
    {k \in 1..Len(VotesRead(legislation_scores, cluster_bills)) :
        /\ VotesRead(legislation_scores, cluster_bills)[k].billId = b
        /\ VotesRead(legislation_scores, cluster_bills)[k].vote.memberId = m}

LastPlace(places) == CHOOSE k \in places : \A h \in places : h <= k

\* C23: when the input holds more than one vote by a member on an item of
\* the cluster, the cell holds the normalized score of the vote read last,
\* and the member has exactly one row.
C23_LastWriteWins ==
    pc = "built" =>
      /\ \A i, i2 \in 1..Len(member_ids) : i # i2 => member_ids[i] # member_ids[i2]
      /\ \A i \in 1..Shape0(voting_matrix), j \in 1..Shape1(voting_matrix) :
           LET places == VotePlaces(member_ids[i], bill_ids[j])
               last == VotesRead(legislation_scores,
                                 cluster_bills)[LastPlace(places)].vote.score
           IN places # {} =>
                voting_matrix[i][j] = Float(2 * (last + 10) - 22, 22)

\* member 1 voted 14 and then 1 on item 10 in one record; the cell is the
\* normalized 1
C23_Witness ==
    /\ pc = "built"
    /\ \E r \in 1..Len(legislation_scores) :
         /\ legislation_scores[r].billId = 10
         /\ Len(legislation_scores[r].memberScores) = 2
         /\ legislation_scores[r].memberScores[1].memberId = 1
         /\ legislation_scores[r].memberScores[1].score = 14
         /\ legislation_scores[r].memberScores[2].memberId = 1
         /\ legislation_scores[r].memberScores[2].score = 1
    /\ Len(legislation_scores) = 1
    /\ member_ids = <<1>>
    /\ bill_ids = <<10>>
    /\ voting_matrix = << <<FInt(0)>> >>

\* C24: impute_missing_values leaves the matrix the caller passed as it was
\* (absent cells stay absent there), returns a matrix of the same shape, and
\* every cell that was present in the input has the same value in the output.
C24_ImputeLeavesInput ==
    [][(pc = "impute" /\ pc' = "imputed") =>
          /\ call_args' = call_args
          /\ Len(call_ret') = Len(call_args[1])
          /\ \A i \in 1..Len(call_args[1]) :
               /\ Len(call_ret'[i]) = Len(call_args[1][i])
               /\ \A j \in 1..Len(call_args[1][i]) :
                    call_args[1][i][j].d # 0 =>
                        call_ret'[i][j] = call_args[1][i][j]]_vars

\* a matrix with a present and an absent cell in one column has been imputed:
\* the caller's matrix still has the absent cell, the returned one has not
C24_Witness ==
    /\ pc = "imputed"
    /\ call_args[1] = << <<FInt(2), FInt(1)>>, <<np_nan, FInt(1)>> >>
    /\ call_ret = << <<FInt(2), FInt(1)>>, <<FInt(2), FInt(1)>> >>

\* C25: the factorizer multiplies column j of the imputed matrix by
\* weights[j] and then subtracts from each row the mean of its weighted
\* values: two cells of a row of the matrix handed to the decomposition
\* differ by what their weighted values differ by, every row sums to zero,
\* and for a cluster with a single item the matrix is all zero (so are its
\* singular values).
C25_WeightedRowsSumToZero ==
    (pc \in {"factored", "done"} /\ np_size(voting_matrix) # 0) =>
      LET imputed == impute_missing_values(voting_matrix)
          cm == CenteredOfBuilt
      IN /\ Shape0(cm) = Shape0(voting_matrix)
         /\ Shape1(cm) = Shape1(voting_matrix)
         /\ \A i \in 1..Shape0(cm) :
              /\ FSum(cm[i]) = FInt(0)
              /\ \A j, j2 \in 1..Shape1(cm) :
                   FSub(cm[i][j], cm[i][j2])
                     = FSub(FMul(imputed[i][j], weights[j]),
                            FMul(imputed[i][j2], weights[j2]))
         /\ Shape1(cm) = 1 =>
              /\ \A i \in 1..Shape0(cm) : cm[i][1] = FInt(0)
              /\ \A d \in 1..Len(S_squared) : S_squared[d] = FInt(0)

\* a 2 x 2 matrix with weights 1.0 and 0.6 has been factored and its rows
\* are not all zero after centering
C25_Witness ==
    /\ pc = "factored"
    /\ Shape0(voting_matrix) = 2 /\ Shape1(voting_matrix) = 2
    /\ weights = << Float(1, 1), Float(3, 5) >>
    /\ S_squared # <<>>
    /\ FLess(FInt(0), FSum(S_squared))
    /\ CenteredOfBuilt[1][1] # CenteredOfBuilt[2][1]

\* what the metadata says about item b, with the defaults for what is missing
MetadataOf(b) ==
    LET info == IF b \in DOMAIN bill_info THEN bill_info[b] ELSE EmptyDict
    IN [title |-> IF "title" \in DOMAIN info THEN info["title"] ELSE "",
        passed |-> "passed" \in DOMAIN info /\ info["passed"],
        deliberationCompleted |->
            "deliberation_completed" \in DOMAIN info
                /\ info["deliberation_completed"]]

\* C26: weights[j], bill_details[j] and column j all belong to item
\* bill_ids[j], and each representative entry of dimension d carries the
\* detail record (billId, title, passed, deliberationCompleted) of the item
\* whose row of the loadings it was selected from, with loading that item's
\* signed loading on d and absLoading its absolute value.
C26_EntriesCarryTheirItem ==
    /\ (Built /\ np_size(voting_matrix) # 0) =>
         /\ Len(weights) = Len(bill_ids)
         /\ Len(bill_details) = Len(bill_ids)
         /\ Shape1(voting_matrix) = Len(bill_ids)
         /\ \A j \in 1..Len(bill_ids) :
              /\ bill_details[j].billId = bill_ids[j]
              /\ bill_details[j].title = MetadataOf(bill_ids[j]).title
              /\ bill_details[j].passed = MetadataOf(bill_ids[j]).passed
              /\ bill_details[j].deliberationCompleted
                    = MetadataOf(bill_ids[j]).deliberationCompleted
              /\ weights[j] = get_bill_weight(
                     DictGet(bill_info, bill_ids[j], EmptyDict), "")
    /\ (Returned /\ result.representativeBills # <<>>) =>
         \A d \in 1..Len(result.representativeBills) :
           \A t \in 1..Len(result.representativeBills[d]) :
             LET e == result.representativeBills[d][t]
             IN \E j \in 1..Len(bill_ids) :
                  /\ e.billId = bill_ids[j]
                  /\ e.title = MetadataOf(bill_ids[j]).title
                  /\ e.passed = MetadataOf(bill_ids[j]).passed
                  /\ e.deliberationCompleted
                        = MetadataOf(bill_ids[j]).deliberationCompleted
                  /\ e.loading = bill_loadings[j][d]
                  /\ e.absLoading = FAbs(bill_loadings[j][d])

\* two items with different metadata and loadings of opposite sign on the
\* first dimension: item 20 is listed first, with its own title and loading
C26_Witness ==
    /\ Returned
    /\ bill_ids = <<10, 20>>
    /\ Len(result.representativeBills) = 2
    /\ result.representativeBills[1][1].billId = 20
    /\ result.representativeBills[1][1].title = "bill twenty"
    /\ result.representativeBills[1][1].loading = FMul(FInt(-1), UnitRoot(1, 2))
    /\ result.representativeBills[1][1].absLoading = UnitRoot(1, 2)
    /\ result.representativeBills[1][2].billId = 10
    /\ result.representativeBills[1][2].passed
    /\ result.representativeBills[1][2].loading = UnitRoot(1, 2)

\* loadings without any cell: no row at all, or rows without columns
EmptyLoadings == {np_empty, <<<<>>>>, <<<<>>, <<>>>>}

\* C27: in every result with dimensions > 0, memberVectors has memberCount
\* entries, each of length dimensions, billLoadings has billCount rows, each
\* of length dimensions, and representativeBills has exactly dimensions
\* entries; for loadings without cells the extractor returns the empty list.
C27_ShapesAgree ==
    /\ (Returned /\ result.dimensions > 0) =>
         /\ Cardinality(DOMAIN result.memberVectors) = result.memberCount
         /\ \A m \in DOMAIN result.memberVectors :
              Len(result.memberVectors[m]) = result.dimensions
         /\ Len(result.billLoadings) = result.billCount
         /\ \A j \in 1..Len(result.billLoadings) :
              Len(result.billLoadings[j]) = result.dimensions
         /\ Len(result.representativeBills) = result.dimensions
    /\ \A m \in EmptyLoadings : \A t \in 0..MaxTopN :
         find_representative_bills(m, <<>>, <<>>, t, <<>>) = <<>>

\* two members, two items, two dimensions kept
C27_Witness ==
    /\ Returned
    /\ result.dimensions = 2
    /\ result.memberCount = 2
    /\ result.billCount = 2
    /\ Len(result.representativeBills) = 2
    /\ Len(result.billLoadings) = 2

\* the cluster items on which no memberScores entry was read
UnvotedItems ==
    {cluster_bills[k] : k \in 1..Len(cluster_bills)}
        \ {VotesRead(legislation_scores, cluster_bills)[k].billId :
             k \in 1..Len(VotesRead(legislation_scores, cluster_bills))}

\* an unvoted item has a column of absent cells, a weight and its detail
\* record, and its imputed column is all 0.0
C28_UnvotedColumnKept ==
    (Built /\ np_size(voting_matrix) # 0) =>
      \A b \in UnvotedItems :
        \E j \in 1..Len(bill_ids) :
          /\ bill_ids[j] = b
          /\ j \in DOMAIN weights
          /\ weights[j] = get_bill_weight(DictGet(bill_info, b, EmptyDict), "")
          /\ j \in DOMAIN bill_details
          /\ bill_details[j].billId = b
          /\ j <= Shape1(voting_matrix)
          /\ \A i \in 1..Shape0(voting_matrix) :
               /\ np_isnan(voting_matrix[i][j])
               /\ impute_missing_values(voting_matrix)[i][j] = FInt(0)

\* an unvoted item is counted in billCount
C28_UnvotedCounted ==
    (Returned /\ np_size(voting_matrix) # 0) =>
      /\ result.billCount = Len(bill_ids)
      /\ UnvotedItems \subseteq {bill_ids[j] : j \in 1..Len(bill_ids)}

\* C28: a cluster item nobody voted on still gets a column, a weight and a
\* detail record as long as some member voted on another cluster item; it is
\* counted in billCount and listed in billIds, and after imputation every
\* cell of its column is 0.0.
C28_UnvotedItemKept ==
    /\ C28_UnvotedColumnKept
    /\ C28_UnvotedCounted
    /\ (Returned /\ np_size(voting_matrix) # 0) =>
         \A b \in UnvotedItems :
           /\ "billIds" \in DOMAIN result
           /\ \E j \in 1..Len(result.billIds) : result.billIds[j] = b

\* the same statement with billIds looked at in the full-path results only
C28_UnvotedItemKeptWhenFactored ==
    /\ C28_UnvotedColumnKept
    /\ C28_UnvotedCounted
    /\ (Returned /\ np_size(member_latent) # 0) =>
         \A b \in UnvotedItems :
           /\ "billIds" \in DOMAIN result
           /\ \E j \in 1..Len(result.billIds) : result.billIds[j] = b

\* a full-path result for a cluster with an unvoted item
C28_UnvotedReached ==
    /\ Returned /\ np_size(member_latent) # 0
    /\ UnvotedItems # {}

\* C29: a cluster item without an entry in the metadata does not make the
\* builder fail; it gets the weight 0.8 and a detail record with an empty
\* title, passed = false and deliberationCompleted = false.
C29_MissingMetadataDefaults ==
    /\ (pc # "start" /\ \E k \in 1..Len(cluster_bills) :
                           cluster_bills[k] \notin DOMAIN bill_info)
          => raised = ""
    /\ (Built /\ np_size(voting_matrix) # 0) =>
         \A j \in 1..Len(bill_ids) :
           bill_ids[j] \notin DOMAIN bill_info =>
             /\ weights[j] = [n |-> 4, d |-> 5]
             /\ bill_details[j] = [billId |-> bill_ids[j], title |-> "",
                                   passed |-> FALSE,
                                   deliberationCompleted |-> FALSE]

\* a matrix built for two items that both lack metadata
C29_Witness ==
    /\ pc = "built"
    /\ np_size(voting_matrix) # 0
    /\ bill_ids = <<10, 20>>
    /\ bill_info = EmptyDict
    /\ weights = <<[n |-> 4, d |-> 5], [n |-> 4, d |-> 5]>>
    /\ bill_details[2].title = ""

\* C30: for every requested number of dimensions <= 0 the result has
\* dimensions 0 and empty memberVectors, billLoadings and
\* representativeBills, and the dimensions kept never exceed
\* max(n_components, 0).
C30_NonPositiveKeepsNothing ==
    Returned =>
      /\ n_components <= 0 =>
           /\ result.dimensions = 0
           /\ result.memberVectors = EmptyDict
           /\ result.billLoadings = <<>>
           /\ result.representativeBills = <<>>
      /\ result.dimensions <= (IF n_components > 0 THEN n_components ELSE 0)

\* the same statement for n_components = 0 and for the negative values that
\* leave no column of U (n_components <= -min(M, N))
C30_KeepsNothingWhenNoColumnLeft ==
    (Returned /\ (n_components = 0
                    \/ n_components + Min2(Len(member_ids), Len(bill_ids)) <= 0))
        => C30_NonPositiveKeepsNothing

\* what a negative n_components keeps: min(M, N) + n_components dimensions
C30_NegativeKeepsTheRest ==
    (Returned /\ n_components < 0 /\ np_size(voting_matrix) # 0
        /\ n_components + Min2(Len(member_ids), Len(bill_ids)) > 0)
        => /\ result.dimensions
                = n_components + Min2(Len(member_ids), Len(bill_ids))
           /\ result.memberVectors # EmptyDict

C30_NegativeReached ==
    /\ Returned
    /\ n_components = -1
    /\ result.dimensions = 1
    /\ Len(result.billLoadings) = 2

====
